---- MODULE Spec2Model ----
(***************************************************************************)
(* Verification model of the moq-cpp manager layer.                        *)
(*                                                                         *)
(*  SpecCatalog : the catalog-gated consumer manager                       *)
(*                (moq-mgr-cpp-old/src/moq-mgr-consumer-session.cc)        *)
(*  SpecWorker  : the frame pump of one subscription worker                *)
(*                (moq-mgr/src/moq-mgr-consumer.cc, cpp/src/moq_group.cpp) *)
(*  SpecSession : the supervisor with reconnection                         *)
(*                (moq-mgr/src/moq-mgr-consumer-session.cc, class Session) *)
(***************************************************************************)
EXTENDS FiniteSets, Integers, Sequences, TLC

VARIABLES
    \* ---- ConsumerSession (catalog gating) ----
    requested_subscriptions_,  \* set of requested track names (keys of the map)
    available_tracks_,         \* map track name -> AvailableTrack
    consumers_,                \* vector of subscription workers
    catalog_consumer,          \* "null" or "running"
    moq_consumer_,             \* "null" or "set" (the BroadcastConsumer)
    fault,                     \* the process has crashed (null dereference, std::terminate)
    hist,                      \* history of the last handler that ran
    \* ---- Consumer (one subscription worker) ----
    group,                     \* frames the producer wrote to the current group
    readPos,                   \* frames already taken off the group stream
    delivered,                 \* payloads handed to the data callback, in order
    wPc,                       \* position of consumer_loop
    w_running,                 \* Consumer::running_
    \* ---- Session (supervisor) ----
    running_,
    moq_client_,
    moq_session_,
    reconnect_on_failure,
    first_reconnect_attempt_,
    sinceStamp,                \* ticks elapsed since last_reconnect_attempt_ (saturating)
    workers,                   \* consumers_ / producers_ of the new manager
    mutex_,                    \* owner of Session::mutex_
    sessPc,                    \* position of the session thread
    waitLeft,                  \* ticks left of the 1 s wait of session_loop
    joinable,                  \* session_thread_.joinable()
    stopPc,                    \* per thread: position inside Session::stop
    trace,                     \* history of the supervisor
    \* ---- Consumer (subscription establishment with retry) ----
    variant,                   \* which consumer.cc: "moq-mgr" or "moq-mgr-cpp"
    subscription_established,
    moq_track_consumer_,       \* "null" or "set"
    worker_moq_consumer_,      \* Consumer::moq_consumer_: "null" or "set"
    sinceRetry,                \* ticks elapsed since last_retry_time (saturating)
    retryPc,                   \* position of consumer_loop
    retryWait,                 \* ticks left of the 1 s wait of consumer_loop
    establishable,             \* the broadcast and the track can be subscribed
    \* ---- ConsumerSession (announcements, both managers) ----
    mgrVariant,                \* which consumer-session.cc: "moq-mgr-cpp-old" or "moq-mgr"
    announcePc,                \* the announcement thread: "none", "loop" or "exited"
    announceSeen,              \* Announce{path = namespace, active = true} was observed
    consumeCalls,              \* calls of moq_session_->consume(namespace) (saturating)
    \* ---- the manager lock (Session::mutex_) and the threads that use it ----
    lockPc,                    \* per thread: position in the code that touches the manager state
    \* ---- moq::GroupProducer ----
    groupHandle,               \* GroupProducer::handle_: "set", "null" or "freed"
    finished_,                 \* GroupProducer::finished_
    written,                   \* the frames the FFI group producer has accepted
    atFinish,                  \* the frames accepted when finish() was called
    \* ---- moq::Session (the handle and its FFI calls) ----
    api,                       \* "moq-cpp" (moq_session.cpp) or "wrapper" (moq_wrapper.cpp)
    handle_,                   \* Session::handle_: "set" or "null"
    closeCalls,                \* FFI close calls made on the handle (saturating)
    freeCalls,                 \* FFI free calls made on the handle (saturating)
    alive,                     \* the Session object has not been destroyed
    created,                   \* producers / consumers the session has handed out (saturating)
    closedOnce,                \* close() has been called
    \* ---- user callbacks invoked by the manager ----
    cbEstablished,             \* subscription_established of the worker that delivers data
    dataCalls,                 \* invocations of the data callback (saturating)
    statusCalls,               \* invocations of the status callback (saturating)
    errorCalls,                \* invocations of the error callback (saturating)
    \* ---- ProducerSession and its Producer workers ----
    broadcasts_,               \* number of configured broadcasts
    producers_,                \* the Producer workers, by index
    sessionPublished,          \* the broadcasts the session has published: {[path, owner]}
    prodRunning,               \* the producer manager is running
    \* ---- moq::BroadcastProducer and its consumable view ----
    bpAlive,                   \* the BroadcastProducer object exists
    bpTracks,                  \* tracks created on it (saturating)
    consumablesHeld,           \* shared_ptr values returned by getConsumable() still held
    sessionBroadcast,          \* what the session publish path was given: "none", "valid", "dangling"
    \* ---- moq::OriginConsumer ----
    originHandle,              \* OriginConsumer::handle_: "set" or "null"
    pathActive,                \* the session engine's view: path -> active
    pending,                   \* announcements the engine has queued for this consumer
    lastAnnounced,             \* path -> the `active` last returned by announced(): "none", "true", "false"
    \* ---- the high-level wrapper: Session objects and event routing ----
    wSessions,                 \* the Session objects that exist (one engine handle each)
    wCallbacks,                \* per Session: the event kinds with a registered callback
    g_current_session          \* 0 (nullptr) or the Session the global pointer names

catalogVars == <<requested_subscriptions_, available_tracks_, consumers_,
                 catalog_consumer, moq_consumer_, fault, hist>>
workerVars  == <<group, readPos, delivered, wPc, w_running>>
sessionVars == <<running_, moq_client_, moq_session_, reconnect_on_failure,
                 first_reconnect_attempt_, sinceStamp, workers, mutex_, sessPc,
                 waitLeft, joinable, stopPc, trace>>
retryVars   == <<variant, subscription_established, moq_track_consumer_,
                 worker_moq_consumer_, sinceRetry, retryPc, retryWait, establishable>>
announceVars == <<mgrVariant, announcePc, announceSeen, consumeCalls>>
lockVars == <<lockPc>>
groupVars == <<groupHandle, finished_, written, atFinish>>
closeVars == <<api, handle_, closeCalls, freeCalls, alive, created, closedOnce>>
cbVars == <<cbEstablished, dataCalls, statusCalls, errorCalls>>
prodVars == <<broadcasts_, producers_, sessionPublished, prodRunning>>
consumableVars == <<bpAlive, bpTracks, consumablesHeld, sessionBroadcast>>
originVars == <<originHandle, pathActive, pending, lastAnnounced>>
dispatchVars == <<wSessions, wCallbacks, g_current_session>>
restVars == <<cbVars, prodVars, consumableVars, originVars, dispatchVars>>
wrapVars == <<groupVars, closeVars, restVars>>
extVars == <<retryVars, announceVars, lockVars, wrapVars>>
vars == <<catalogVars, workerVars, sessionVars, extVars>>

(***************************************************************************)
(* Bounds                                                                  *)
(***************************************************************************)
MaxTracks == 2        \* longest "tracks" array of a catalog frame
MaxFrames == 3        \* most frames in one group
NumConfigs == 2       \* configured subscriptions / broadcasts of a manager
MaxCount == 3         \* history counters saturate here
MaxSessions == 2      \* wrapper Session objects that exist at one time
TicksPerSec == 2      \* clock ticks per second

(***************************************************************************)
(* JSON values, by type (nlohmann::json::value_t)                          *)
(***************************************************************************)
JAbsent    == [k |-> "absent"]                 \* the key is not in the object
JNum(n)    == [k |-> "number", n |-> n]
JStr(str)  == [k |-> "string", s |-> str]
JArr(arr)  == [k |-> "array", a |-> arr]
JObj(keys) == [k |-> "object", keys |-> keys]   \* an object with these keys

\* std::map / nlohmann::json object key order (lexicographic)
NameRank == [n \in {"audio", "audio/data", "video", "video/hd", "video/sd"} |->
               CASE n = "audio"      -> 1
                 [] n = "audio/data" -> 2
                 [] n = "video"      -> 3
                 [] n = "video/hd"   -> 4
                 [] n = "video/sd"   -> 5]
AllNames == DOMAIN NameRank
MinName(S) == CHOOSE n \in S : \A m \in S : NameRank[n] <= NameRank[m]

RECURSIVE SortedSeq(_)
SortedSeq(S) == IF S = {} THEN << >>
                ELSE <<MinName(S)>> \o SortedSeq(S \ {MinName(S)})

StdNames == {"audio/data", "video/hd"}
TypeOf(n) == IF n \in {"audio", "audio/data"} THEN "audio" ELSE "video"
PrioOf(n) == IF n \in {"audio", "audio/data"} THEN 80 ELSE 60

TrackEntries ==
    { [trackName |-> JStr(n), type |-> JStr(TypeOf(n)), priority |-> JNum(PrioOf(n))] :
        n \in StdNames }
    \cup { [trackName |-> JStr("video/hd"),   type |-> JAbsent,       priority |-> JNum(60)],
           [trackName |-> JNum(7),            type |-> JStr("video"), priority |-> JNum(60)],
           [trackName |-> JStr("audio/data"), type |-> JStr("audio"), priority |-> JStr("high")] }

SeqsUpTo(S, n) == UNION { [1..k -> S] : k \in 0..n }

\* the values of a HANG kind: absent, or an object whose "renditions" is
\* absent, not an object, or an object with the given keys
KindValues(rends) ==
    {JAbsent} \cup { [k |-> "object", priority |-> JNum(60), renditions |-> r] :
                       r \in {JAbsent, JArr(<< >>)} \cup { JObj(ks) : ks \in rends } }

\* the catalog frames the publisher may send
Docs ==
    { [parses |-> FALSE, tracks |-> JAbsent, video |-> JAbsent, audio |-> JAbsent] }
    \cup { [parses |-> TRUE, tracks |-> JArr(t), video |-> JAbsent, audio |-> JAbsent] :
             t \in SeqsUpTo(TrackEntries, MaxTracks) }
    \cup { [parses |-> TRUE, tracks |-> t, video |-> v, audio |-> a] :
             t \in {JAbsent, JNum(5)},
             v \in KindValues({{"video/hd"}, {"video/hd", "video/sd"}}),
             a \in KindValues({{"audio/data"}}) }

\* catalog_json.contains("tracks") && catalog_json["tracks"].is_array()
TracksIsArray(doc) == doc.tracks.k = "array"

(***************************************************************************)
(* ConsumerSession                                                         *)
(***************************************************************************)
Namespace == "ns"
Paths == {"ns", "other"}

EmptyMap == << >>
Put(m, k, v) == [x \in (DOMAIN m) \cup {k} |-> IF x = k THEN v ELSE m[x]]

AvailableTrack(name, type, priority) ==
    [track_name |-> name, type |-> type, priority |-> priority]

NewConsumer(name) == [track |-> name, running |-> TRUE]

Subscribed(cons, name) == \E i \in 1..Len(cons) : cons[i].track = name

\* variant of check_subscriptions without the already_subscribed test
check_subscriptions_NoDedup(av, cons) ==
    LET kept    == SelectSeq(cons, LAMBDA c : c.track \in DOMAIN av)
        toStart == { n \in requested_subscriptions_ : n \in DOMAIN av }
        order   == SortedSeq(toStart)
    IN  IF toStart # {} /\ moq_consumer_ = "null"
        THEN [consumers |-> kept, threw |-> TRUE]
        ELSE [consumers |-> kept \o [i \in 1..Len(order) |-> NewConsumer(order[i])],
              threw |-> FALSE]

\* ConsumerSession::check_subscriptions.  First pass: stop and erase the
\* workers whose track is not available.  Second pass: start a worker for
\* every requested, available track that has none.  Constructing a Consumer
\* on a null BroadcastConsumer throws std::invalid_argument.
check_subscriptions(av, cons) ==
    LET kept    == SelectSeq(cons, LAMBDA c : c.track \in DOMAIN av)
        toStart == { n \in requested_subscriptions_ :
                       n \in DOMAIN av /\ ~Subscribed(kept, n) }
        order   == SortedSeq(toStart)
    IN  IF toStart # {} /\ moq_consumer_ = "null"
        THEN [consumers |-> kept, threw |-> TRUE]
        ELSE [consumers |-> kept \o [i \in 1..Len(order) |-> NewConsumer(order[i])],
              threw |-> FALSE]

\* track.contains("trackName") && track.contains("type") && track.contains("priority")
HasAllFields(track) ==
    track.trackName.k # "absent" /\ track.type.k # "absent" /\ track.priority.k # "absent"
\* get<std::string>() / get<int>() throw json::type_error on another type
GetThrows(track) ==
    track.trackName.k # "string" \/ track.type.k # "string" \/ track.priority.k # "number"

\* the loop over the "tracks" array: each complete entry is stored and
\* followed by check_subscriptions(); get<T>() on a value of the wrong type
\* throws json::type_error and leaves the loop
RECURSIVE ProcessTracks(_, _, _, _)
ProcessTracks(tracks, i, av, cons) ==
    IF i > Len(tracks)
    THEN [available |-> av, consumers |-> cons, threw |-> FALSE]
    ELSE LET track == tracks[i] IN
         IF ~HasAllFields(track)
         THEN ProcessTracks(tracks, i + 1, av, cons)
         ELSE IF GetThrows(track)
         THEN [available |-> av, consumers |-> cons, threw |-> TRUE]
         ELSE LET av2 == Put(av, track.trackName.s,
                             AvailableTrack(track.trackName.s, track.type.s, track.priority.n))
                  r   == check_subscriptions(av2, cons)
              IN  IF r.threw
                  THEN [available |-> av2, consumers |-> r.consumers, threw |-> TRUE]
                  ELSE ProcessTracks(tracks, i + 1, av2, r.consumers)

\* the name process_hang_catalog derives from one kind:
\* renditions.begin().key() when "renditions" is present, else the kind
HangName(kindValue, kind) ==
    IF kindValue.renditions.k = "absent" THEN kind
    ELSE MinName(kindValue.renditions.keys)
\* iterator::key() throws json::invalid_iterator when "renditions" is not an object
HangThrows(kindValue) ==
    kindValue.k # "absent" /\ kindValue.renditions.k \notin {"absent", "object"}

\* variant of process_hang_catalog that ignores the kinds of the document
process_hang_catalog_NoKinds(doc, cons) ==
    LET r == check_subscriptions(EmptyMap, cons)
    IN  [available |-> EmptyMap, consumers |-> r.consumers, threw |-> r.threw]

\* ConsumerSession::process_hang_catalog
process_hang_catalog(doc, cons) ==
    LET av0 == EmptyMap
        av1 == IF doc.video.k # "absent" /\ ~HangThrows(doc.video)
               THEN Put(av0, HangName(doc.video, "video"),
                        AvailableTrack(HangName(doc.video, "video"), "video", 1))
               ELSE av0
        av2 == IF doc.audio.k # "absent" /\ ~HangThrows(doc.audio)
               THEN Put(av1, HangName(doc.audio, "audio"),
                        AvailableTrack(HangName(doc.audio, "audio"), "audio", 1))
               ELSE av1
    IN  IF HangThrows(doc.video)
        THEN [available |-> av0, consumers |-> cons, threw |-> TRUE]
        ELSE IF HangThrows(doc.audio)
        THEN [available |-> av1, consumers |-> cons, threw |-> TRUE]
        ELSE LET r == check_subscriptions(av2, cons)
             IN  [available |-> av2, consumers |-> r.consumers, threw |-> r.threw]

\* variant of process_catalog_data without available_tracks_.clear()
process_catalog_data_NoClear(doc, av, cons) ==
    IF ~doc.parses
    THEN [available |-> av, consumers |-> cons, threw |-> TRUE]
    ELSE IF ~TracksIsArray(doc)
    THEN process_hang_catalog(doc, cons)
    ELSE ProcessTracks(doc.tracks.a, 1, av, cons)

\* ConsumerSession::process_catalog_data
process_catalog_data(doc, av, cons) ==
    IF ~doc.parses
    THEN [available |-> av, consumers |-> cons, threw |-> TRUE]
    ELSE IF ~TracksIsArray(doc)
    THEN process_hang_catalog(doc, cons)
    ELSE ProcessTracks(doc.tracks.a, 1, EmptyMap, cons)

\* the tracks whose worker process_catalog_data stops while it handles one
\* frame: the first pass of check_subscriptions calls stop() and erases the
\* worker, after each stored entry of a "tracks" array or once for a HANG
\* catalog
StoppedDuring(doc, cons) ==
    LET had == { cons[i].track : i \in 1..Len(cons) } IN
    IF ~doc.parses THEN {}
    ELSE IF ~TracksIsArray(doc)
    THEN { n \in had : ~Subscribed(process_hang_catalog(doc, cons).consumers, n) }
    ELSE { n \in had : \E i \in 0..Len(doc.tracks.a) :
             ~Subscribed(ProcessTracks(SubSeq(doc.tracks.a, 1, i), 1, EmptyMap,
                                       cons).consumers, n) }

(***************************************************************************)
(* What a frame says, independently of how it is processed                 *)
(***************************************************************************)
\* the track names a frame lists
ListedOfKind(kindValue, kind) ==
    IF kindValue.k = "absent" THEN {}
    ELSE IF kindValue.renditions.k = "absent" THEN {kind}
    ELSE IF kindValue.renditions.k = "object" THEN kindValue.renditions.keys
    ELSE {}
Listed(doc) ==
    IF ~doc.parses THEN {}
    ELSE IF TracksIsArray(doc)
    THEN { doc.tracks.a[i].trackName.s :
             i \in { j \in 1..Len(doc.tracks.a) : doc.tracks.a[j].trackName.k = "string" } }
    ELSE ListedOfKind(doc.video, "video") \cup ListedOfKind(doc.audio, "audio")

\* a member of the wrong JSON type somewhere in the document
HasWrongType(doc) ==
    IF TracksIsArray(doc)
    THEN \E i \in 1..Len(doc.tracks.a) :
            \/ doc.tracks.a[i].trackName.k \notin {"absent", "string"}
            \/ doc.tracks.a[i].type.k \notin {"absent", "string"}
            \/ doc.tracks.a[i].priority.k \notin {"absent", "number"}
    ELSE \E kv \in {doc.video, doc.audio} :
            kv.k # "absent" /\ kv.renditions.k \notin {"absent", "object"}

\* "garbage": not JSON.  "invalid": a member of the wrong JSON type.
\* "valid": a standard catalog, or a HANG catalog with at least one kind.
\* "other": parseable, no tracks array and no kind.
DocClass(doc) ==
    IF ~doc.parses THEN "garbage"
    ELSE IF HasWrongType(doc) THEN "invalid"
    ELSE IF ~TracksIsArray(doc) /\ doc.video.k = "absent" /\ doc.audio.k = "absent"
    THEN "other"
    ELSE "valid"

\* the entries of a "tracks" array that carry trackName, type and priority
CompleteIdx(tracks) == { i \in 1..Len(tracks) : HasAllFields(tracks[i]) }
LastIdx(tracks, n) == CHOOSE i \in CompleteIdx(tracks) :
                         /\ tracks[i].trackName.s = n
                         /\ \A j \in CompleteIdx(tracks) :
                               tracks[j].trackName.s = n => j <= i
\* what a standard catalog says is available
SaidStandard(tracks) ==
    { AvailableTrack(n, tracks[LastIdx(tracks, n)].type.s,
                        tracks[LastIdx(tracks, n)].priority.n) :
        n \in { tracks[i].trackName.s : i \in CompleteIdx(tracks) } }
\* what a HANG catalog says is available: every rendition of every kind,
\* with the kind's priority
SaidOfKind(kindValue, kind) ==
    IF kindValue.k = "absent" THEN {}
    ELSE IF kindValue.renditions.k # "object" THEN {}
    ELSE { AvailableTrack(n, kind, kindValue.priority.n) : n \in kindValue.renditions.keys }
SaidHang(doc) == SaidOfKind(doc.video, "video") \cup SaidOfKind(doc.audio, "audio")
\* the format of a frame and what it says, for frames without a wrong type
Format(doc) == IF ~doc.parses THEN "none"
               ELSE IF TracksIsArray(doc) THEN "standard" ELSE "hang"
Said(doc) == IF ~doc.parses \/ HasWrongType(doc) THEN {}
             ELSE IF TracksIsArray(doc) THEN SaidStandard(doc.tracks.a)
             ELSE SaidHang(doc)
\* the kinds a parsed document has at its top level
Kinds(doc) == IF ~doc.parses THEN {}
              ELSE { kd \in {"video", "audio"} :
                       (IF kd = "video" THEN doc.video ELSE doc.audio).k # "absent" }
Incomplete(doc) == IF doc.parses /\ TracksIsArray(doc)
                   THEN Len(doc.tracks.a) - Cardinality(CompleteIdx(doc.tracks.a))
                   ELSE 0

NoHist == [op |-> "none"]

RetryDefaults == /\ variant = "none" /\ subscription_established = FALSE
                 /\ moq_track_consumer_ = "null" /\ worker_moq_consumer_ = "null"
                 /\ sinceRetry = 0 /\ retryPc = "none" /\ retryWait = 0
                 /\ establishable = FALSE
AnnounceDefaults == /\ mgrVariant = "none" /\ announcePc = "none"
                    /\ announceSeen = FALSE /\ consumeCalls = 0
LockDefaults == lockPc = << >>
GroupDefaults == /\ groupHandle = "null" /\ finished_ = FALSE
                 /\ written = << >> /\ atFinish = << >>
CloseDefaults == /\ api = "none" /\ handle_ = "null" /\ closeCalls = 0 /\ freeCalls = 0
                 /\ alive = FALSE /\ created = 0 /\ closedOnce = FALSE
CallbackDefaults == /\ cbEstablished = FALSE /\ dataCalls = 0
                    /\ statusCalls = 0 /\ errorCalls = 0
ProducerDefaults == /\ broadcasts_ = 0 /\ producers_ = << >>
                    /\ sessionPublished = {} /\ prodRunning = FALSE
ConsumableDefaults == /\ bpAlive = FALSE /\ bpTracks = 0 /\ consumablesHeld = 0
                      /\ sessionBroadcast = "none"
OriginDefaults == /\ originHandle = "null" /\ pathActive = << >>
                  /\ pending = << >> /\ lastAnnounced = << >>
DispatchDefaults == /\ wSessions = {} /\ wCallbacks = << >>
                    /\ g_current_session = 0
RestDefaults == /\ CallbackDefaults /\ ProducerDefaults /\ ConsumableDefaults
                /\ OriginDefaults /\ DispatchDefaults
WrapDefaults == GroupDefaults /\ CloseDefaults /\ RestDefaults
ExtDefaults == RetryDefaults /\ AnnounceDefaults /\ LockDefaults /\ WrapDefaults

WorkerDefaults == /\ group = << >> /\ readPos = 0 /\ delivered = << >>
                  /\ wPc = "idle" /\ w_running = FALSE
SessionDefaults == /\ running_ = FALSE /\ moq_client_ = FALSE /\ moq_session_ = "null"
                   /\ reconnect_on_failure = FALSE /\ first_reconnect_attempt_ = TRUE
                   /\ sinceStamp = 0 /\ workers = << >> /\ mutex_ = "none"
                   /\ sessPc = "none" /\ waitLeft = 0 /\ joinable = FALSE
                   /\ stopPc = << >> /\ trace = NoHist
CatalogDefaults == /\ requested_subscriptions_ = {} /\ available_tracks_ = EmptyMap
                   /\ consumers_ = << >> /\ catalog_consumer = "null"
                   /\ moq_consumer_ = "null" /\ fault = FALSE /\ hist = NoHist

\* ConsumerSession constructor: requested_subscriptions_ from the configuration
InitCatalog ==
    /\ requested_subscriptions_ \in SUBSET {"audio/data", "video/hd", "video"}
    /\ available_tracks_ = EmptyMap
    /\ consumers_ = << >>
    /\ catalog_consumer = "null"
    /\ moq_consumer_ = "null"
    /\ fault = FALSE
    /\ hist = NoHist
    /\ WorkerDefaults
    /\ SessionDefaults
    /\ ExtDefaults

\* start_catalog_consumer: `this->catalog_consumer = std::make_unique<...>`
\* deletes the Consumer the pointer owned before, and ~Consumer calls stop();
\* what has become of that earlier catalog consumer
ReplacedConsumer(old) == IF old = "null" THEN "none" ELSE "stopped"

\* one iteration of ConsumerSession::announcement_loop that received an
\* announcement; consumeOk is the outcome of moq_session_->consume()
AnnouncementLoop(path, active, consumeOk) ==
    /\ ~fault
    /\ IF path # Namespace
       THEN UNCHANGED <<catalog_consumer, moq_consumer_, fault>>
       ELSE IF active
       THEN /\ moq_consumer_' = IF consumeOk THEN "set" ELSE "null"
            /\ catalog_consumer' = IF consumeOk THEN "running" ELSE catalog_consumer
            /\ UNCHANGED fault
       ELSE \* stop_catalog_consumer(): catalog_consumer->stop() on a null pointer
            /\ fault' = (catalog_consumer = "null")
            /\ catalog_consumer' = "null"
            /\ UNCHANGED moq_consumer_
    /\ hist' = [op |-> "announce", path |-> path, active |-> active,
                replaced |-> IF path = Namespace /\ active /\ consumeOk
                             THEN ReplacedConsumer(catalog_consumer) ELSE "none"]
    /\ UNCHANGED <<requested_subscriptions_, available_tracks_, consumers_>>
    /\ UNCHANGED <<workerVars, sessionVars, extVars>>

\* the catalog consumer's data callback: one catalog frame
ProcessCatalogData(doc) ==
    /\ ~fault
    /\ catalog_consumer = "running"
    /\ LET r == process_catalog_data(doc, available_tracks_, consumers_) IN
       /\ available_tracks_' = r.available
       /\ consumers_' = r.consumers
       /\ hist' = [op |-> "catalog", class |-> DocClass(doc), listed |-> Listed(doc),
                   format |-> Format(doc), said |-> Said(doc),
                   tracks |-> doc.tracks.k, kinds |-> Kinds(doc),
                   incomplete |-> Incomplete(doc), completed |-> ~r.threw,
                   prevAvailable |-> available_tracks_, prevConsumers |-> consumers_,
                   stopped |-> StoppedDuring(doc, consumers_)]
    /\ UNCHANGED <<requested_subscriptions_, catalog_consumer, moq_consumer_, fault>>
    /\ UNCHANGED <<workerVars, sessionVars, extVars>>

NextCatalog ==
    \/ \E path \in Paths, active \in BOOLEAN, consumeOk \in BOOLEAN :
          AnnouncementLoop(path, active, consumeOk)
    \/ \E doc \in Docs : ProcessCatalogData(doc)

SpecCatalog == InitCatalog /\ [][NextCatalog]_vars

\* tracks with a running subscription worker
ActiveTracks == { consumers_[i].track : i \in { j \in 1..Len(consumers_) : consumers_[j].running } }
RunningWorkers(name) == { i \in 1..Len(consumers_) :
                            consumers_[i].track = name /\ consumers_[i].running }

\* C1: catalog gating - the tracks with an active worker are always a subset
\* of requested /\ available
C1_CatalogGating ==
    ActiveTracks \subseteq (requested_subscriptions_ \cap DOMAIN available_tracks_)

\* C2: catalog withdrawal - once a valid catalog frame has been processed, no
\* worker remains for a track the frame does not list
C2_Withdrawal ==
    (hist.op = "catalog" /\ hist.class = "valid")
        => ActiveTracks \subseteq hist.listed

C4_InvalidFrameNoEffect ==
    (hist.op = "catalog" /\ hist.class \in {"garbage", "invalid"})
        => /\ available_tracks_ = hist.prevAvailable
           /\ consumers_ = hist.prevConsumers

\* C33: processing a valid catalog frame neither stops nor restarts the
\* worker of a track that the previous catalog and the new frame both list
C33_CommonTracksUntouched ==
    (hist.op = "catalog" /\ hist.class = "valid" /\ hist.completed)
        => hist.stopped \cap DOMAIN hist.prevAvailable
             \cap { t.track_name : t \in hist.said } = {}

\* C34: after Announce{path = namespace, active = false} has been processed
\* no subscription worker remains: neither the catalog consumer nor a track
\* worker
C34_WithdrawalStopsAllWorkers ==
    (hist.op = "announce" /\ hist.path = Namespace /\ ~hist.active /\ ~fault)
        => (catalog_consumer = "null" /\ ActiveTracks = {})

\* C35: a withdrawal of the namespace that arrives while there is no catalog
\* consumer changes nothing and does not crash
C35_WithdrawalWithoutConsumerIsNoOp ==
    [][((\E consumeOk \in BOOLEAN : AnnouncementLoop(Namespace, FALSE, consumeOk))
          /\ catalog_consumer = "null")
        => (~fault' /\ UNCHANGED <<catalog_consumer, moq_consumer_, consumers_,
                                   available_tracks_>>)]_vars

\* catalog Consumer objects whose thread runs: the one catalog_consumer
\* owns, and the one an activation has just replaced if it was not stopped
RunningCatalogConsumers ==
    (IF catalog_consumer = "running" THEN 1 ELSE 0)
    + (IF hist.op = "announce" /\ hist.replaced = "running" THEN 1 ELSE 0)

\* C36: at every instant there is at most one subscription worker per track
\* name and at most one running catalog consumer
C36_AtMostOneWorkerPerTrack ==
    /\ \A n \in AllNames :
          Cardinality({ i \in 1..Len(consumers_) : consumers_[i].track = n }) <= 1
    /\ RunningCatalogConsumers <= 1
C36_Witness ==
    /\ hist.op = "announce" /\ hist.active /\ hist.replaced = "stopped"
    /\ catalog_consumer = "running"
    /\ Len(consumers_) = 2

\* available_tracks_ as the set of its entries
AvailableSet == { available_tracks_[n] : n \in DOMAIN available_tracks_ }
KeyedByName == \A n \in DOMAIN available_tracks_ : available_tracks_[n].track_name = n

C14_HangAllRenditions ==
    (hist.op = "catalog" /\ hist.class = "valid" /\ hist.completed
        /\ hist.format = "hang")
        => hist.said \subseteq AvailableSet

Payloads == { <<1>>, <<2, 2>> }
Frames == [payload : Payloads \cup { << >> }, late : BOOLEAN]
Groups == SeqsUpTo(Frames, MaxFrames)

\* GroupConsumer::readFrame: the value of the future for the frame the FFI
\* read returned; "nullopt" at the end of the group and for data_len = 0
readFrame(g, pos) ==
    IF pos >= Len(g) THEN [has_value |-> FALSE, value |-> << >>]
    ELSE IF Len(g[pos + 1].payload) > 0
    THEN [has_value |-> TRUE, value |-> g[pos + 1].payload]
    ELSE [has_value |-> FALSE, value |-> << >>]

\* the frame the next read takes off the stream is a zero-length frame
ZeroLengthNext(g, pos) == pos < Len(g) /\ g[pos + 1].payload = << >>

\* whether wait_for() returned future_status::ready
ReadyInTime(g, pos) == pos >= Len(g) \/ ~g[pos + 1].late

WorkerFrame ==
    /\ UNCHANGED <<requested_subscriptions_, available_tracks_, consumers_,
                   catalog_consumer, moq_consumer_, fault>>
    /\ UNCHANGED sessionVars
    /\ UNCHANGED extVars

InitWorker ==
    /\ group = << >> /\ readPos = 0 /\ delivered = << >>
    /\ wPc = "next_group" /\ w_running = TRUE
    /\ hist = NoHist
    /\ requested_subscriptions_ = {} /\ available_tracks_ = EmptyMap
    /\ consumers_ = << >> /\ catalog_consumer = "null"
    /\ moq_consumer_ = "null" /\ fault = FALSE
    /\ SessionDefaults
    /\ ExtDefaults

\* consumer_loop: nextGroup() returned a group consumer
NextGroup(g) ==
    /\ WorkerFrame
    /\ wPc = "next_group"
    /\ w_running
    /\ group' = g /\ readPos' = 0 /\ delivered' = << >>
    /\ wPc' = "read_frames"
    /\ hist' = [op |-> "next_group"]
    /\ UNCHANGED w_running

\* consumer_loop: the outer loop sees running_ == false and returns
LoopExit ==
    /\ WorkerFrame
    /\ wPc = "next_group"
    /\ ~w_running
    /\ wPc' = "exited"
    /\ hist' = [op |-> "exit"]
    /\ UNCHANGED <<group, readPos, delivered, w_running>>

\* one iteration of the inner loop "Read all frames from this group".  On a
\* timeout the future is destroyed at the end of the iteration; the
\* destructor of a std::async future waits for the read, whose frame is lost.
ReadFrame ==
    /\ WorkerFrame
    /\ wPc = "read_frames"
    /\ IF ~w_running
       THEN /\ wPc' = "next_group"
            /\ hist' = [op |-> "group_left"]
            /\ UNCHANGED <<readPos, delivered>>
       ELSE LET frame_data == readFrame(group, readPos) IN
            IF ReadyInTime(group, readPos)
            THEN IF ~frame_data.has_value
                 THEN /\ wPc' = "next_group"
                      /\ readPos' = IF readPos < Len(group) THEN readPos + 1 ELSE readPos
                      /\ hist' = [op |-> "group_done",
                                  zero |-> ZeroLengthNext(group, readPos)]
                      /\ UNCHANGED delivered
                 ELSE /\ delivered' = Append(delivered, frame_data.value)
                      /\ readPos' = readPos + 1
                      /\ hist' = [op |-> "frame",
                                  zero |-> ZeroLengthNext(group, readPos)]
                      /\ UNCHANGED wPc
            ELSE /\ readPos' = readPos + 1
                 /\ hist' = [op |-> "timeout"]
                 /\ UNCHANGED <<wPc, delivered>>
    /\ UNCHANGED <<group, w_running>>

\* Consumer::stop() sets running_ to false (and then joins the thread)
ConsumerStop ==
    /\ WorkerFrame
    /\ w_running
    /\ wPc # "exited"
    /\ w_running' = FALSE
    /\ hist' = [op |-> "stop"]
    /\ UNCHANGED <<group, readPos, delivered, wPc>>

NextWorker ==
    \/ \E g \in Groups : NextGroup(g)
    \/ LoopExit
    \/ ReadFrame
    \/ ConsumerStop

SpecWorker == InitWorker /\ [][NextWorker]_vars

Written(g) == [i \in 1..Len(g) |-> g[i].payload]

\* C5: when the worker has read a group to its end, the data callback has
\* received exactly the frames the producer wrote, in write order
C5_AllFramesDelivered ==
    (hist.op = "group_done") => delivered = Written(group)

\* C21: a zero-length frame that the read returns in time is handed to the
\* consumer as a zero-length frame, not reported as the end of the group
C21_ZeroLengthFrameObserved ==
    (hist.op \in {"group_done", "frame"} /\ hist.zero)
        => (hist.op = "frame" /\ delivered # << >>
            /\ delivered[Len(delivered)] = << >>)

(***************************************************************************)
(* Session: the supervisor (start, stop, session_loop, reconnect)          *)
(***************************************************************************)
Threads == {"user", "session", "worker"}
NoStop == [at |-> "none", by |-> "none"]
InStop(t) == stopPc[t].at # "none"

ReconnectInterval == 3                  \* seconds
WaitInterval == 1                       \* seconds
StampCap == ReconnectInterval * TicksPerSec

Min(a, b) == IF a < b THEN a ELSE b
Sat(n) == Min(n + 1, MaxCount)

\* attempts, attemptsSinceFailure : connect() calls made by reconnect()
\* called, prevOk     : reconnect() has been called before / it returned true
\* sinceAttempt       : ticks since the latest call of reconnect()
\* hasGap, lastGap, gapPrevOk : the latest call had a predecessor, the ticks
\*                      between the two, and the outcome of the predecessor
\* selfLock, selfJoin : who called the stop() that relocked / joined itself
\* startResult, startConnects : what the latest start() that returned gave
\*                      back, and the connect() calls it made
\* connectSite        : which function made the latest connect() call
\* destroyed          : the manager object has been destroyed
NoTrace == [startResult |-> "none", startConnects |-> 0, connectSite |-> "none",
            destroyed |-> FALSE,
            attempts |-> 0, attemptsSinceFailure |-> 0,
            called |-> FALSE, prevOk |-> FALSE, sinceAttempt |-> 0,
            hasGap |-> FALSE, lastGap |-> 0, gapPrevOk |-> FALSE,
            selfLock |-> "none", selfJoin |-> "none"]

\* start_all_workers(): the vector is cleared and one worker per configured
\* subscription / broadcast is created, started and pushed back
start_all_workers == [i \in 1..NumConfigs |-> [cfg |-> i, running |-> TRUE]]

\* variant of stop_all_workers that leaves the workers running
stop_all_workers_Skip(ws) == ws

\* stop_all_workers(): stop() on every worker
stop_all_workers(ws) == [i \in 1..Len(ws) |-> [ws[i] EXCEPT !.running = FALSE]]

\* variant of StopsOnFailure that reconnects whatever the configuration says
StopsOnFailure_Never(flag) == FALSE

\* session_loop: "if (!config_.reconnect_on_failure) { stop(); break; }"
StopsOnFailure(flag) == ~flag

\* variant of SessionAfterClose that keeps the closed session object
SessionAfterClose_NoReset(sess) == IF sess = "null" THEN "null" ELSE "closed"

\* reconnect: "if (moq_session_) { moq_session_->close(); moq_session_.reset(); }"
SessionAfterClose(sess) == "null"

\* variant of ShouldAttemptReconnect that waits a second less
ShouldAttemptReconnect_Short(first, since) ==
    first \/ (since \div TicksPerSec) >= ReconnectInterval - 1

\* session_loop: should_attempt_reconnect
ShouldAttemptReconnect(first, since) ==
    first \/ (since \div TicksPerSec) >= ReconnectInterval

\* moq::Session::isAlive() on a non-null session pointer
NotAlive(sess) == sess \in {"dead", "closed"}

SessionFrame ==
    /\ UNCHANGED <<requested_subscriptions_, available_tracks_, consumers_,
                   catalog_consumer, moq_consumer_, hist>>
    /\ UNCHANGED workerVars
    /\ UNCHANGED extVars

\* Session constructor
InitSession ==
    /\ running_ = FALSE
    /\ moq_client_ = FALSE
    /\ moq_session_ = "null"
    /\ reconnect_on_failure \in BOOLEAN
    /\ first_reconnect_attempt_ = TRUE
    /\ sinceStamp = StampCap
    /\ workers = << >>
    /\ mutex_ = "none"
    /\ sessPc = "none"
    /\ waitLeft = 0
    /\ joinable = FALSE
    /\ stopPc = [t \in Threads |-> NoStop]
    /\ trace = NoTrace
    /\ CatalogDefaults
    /\ WorkerDefaults
    /\ ExtDefaults

\* the modes a manager is constructed with: ProducerSession passes
\* SessionMode::PublishOnly, ConsumerSession SessionMode::SubscribeOnly
ManagerModes == {"PublishOnly", "SubscribeOnly"}

\* the mode argument of moq_client_->connect(): start() passes
\* moq::SessionMode::Both, reconnect() passes mode_
connect_mode(site, mode_) == IF site = "start" THEN "Both" ELSE mode_

\* the manager object exists and the process has not crashed
Alive == ~fault /\ ~trace.destroyed

running_after_connect_failure_Kept == TRUE
\* Session::start: `running_ = false;` before `return false` when connect() failed
running_after_connect_failure == FALSE

\* Session::start() on the user thread (a call while running_ returns true
\* and changes nothing); ok is the outcome of connect(), cbStop whether the
\* status callback of "Session started" calls stop().  The whole body runs
\* under mutex_.
Start(ok, cbStop) ==
    /\ Alive
    /\ ~InStop("user")
    /\ mutex_ = "none"
    /\ ~running_
    /\ moq_client_' = TRUE
    /\ IF ~ok
       THEN \* notify_error("Failed to connect ...") runs with running_ set
            \* and mutex_ held; then running_ = false; return false
            IF cbStop
            THEN /\ running_' = TRUE
                 /\ mutex_' = "user"
                 /\ stopPc' = [stopPc EXCEPT !["user"] = [at |-> "enter", by |-> "callback"]]
                 /\ trace' = [trace EXCEPT !.connectSite = "start"]
                 /\ UNCHANGED <<moq_session_, workers, sessPc, joinable, fault>>
            ELSE /\ running_' = running_after_connect_failure
                 /\ trace' = [trace EXCEPT !.startResult = "false", !.startConnects = 1,
                                           !.connectSite = "start"]
                 /\ UNCHANGED <<moq_session_, workers, sessPc, joinable,
                                mutex_, stopPc, fault>>
       ELSE /\ running_' = TRUE
            /\ moq_session_' = "alive"
            /\ workers' = start_all_workers
            \* assigning to a joinable std::thread calls std::terminate
            /\ fault' = joinable
            /\ sessPc' = IF joinable THEN sessPc ELSE "top"
            /\ joinable' = TRUE
            /\ IF cbStop /\ ~joinable
               THEN /\ mutex_' = "user"
                    /\ stopPc' = [stopPc EXCEPT !["user"] = [at |-> "enter", by |-> "callback"]]
                    /\ trace' = [trace EXCEPT !.connectSite = "start"]
               ELSE /\ trace' = IF joinable
                                THEN [trace EXCEPT !.connectSite = "start"]
                                ELSE [trace EXCEPT !.startResult = "true", !.startConnects = 1,
                                                   !.connectSite = "start"]
                    /\ UNCHANGED <<mutex_, stopPc>>
    /\ UNCHANGED <<reconnect_on_failure, first_reconnect_attempt_, sinceStamp,
                   waitLeft>>
    /\ SessionFrame

\* the user calls Session::stop()
UserStop ==
    /\ Alive
    /\ ~InStop("user")
    /\ stopPc' = [stopPc EXCEPT !["user"] = [at |-> "enter", by |-> "api"]]
    /\ UNCHANGED <<running_, moq_client_, moq_session_, reconnect_on_failure,
                   first_reconnect_attempt_, sinceStamp, workers, mutex_, sessPc,
                   waitLeft, joinable, trace, fault>>
    /\ SessionFrame

\* the data callback of the first worker, on that worker's thread, calls stop()
DataCallbackStop ==
    /\ Alive
    /\ ~InStop("worker")
    /\ Len(workers) >= 1 /\ workers[1].running
    /\ stopPc' = [stopPc EXCEPT !["worker"] = [at |-> "enter", by |-> "callback"]]
    /\ UNCHANGED <<running_, moq_client_, moq_session_, reconnect_on_failure,
                   first_reconnect_attempt_, sinceStamp, workers, mutex_, sessPc,
                   waitLeft, joinable, trace, fault>>
    /\ SessionFrame

\* Session::stop() up to the join of the session thread: take mutex_, test
\* and clear running_, release; close the session; stop_all_workers().
\* Locking a std::mutex the thread already owns never returns.  A worker
\* that stops itself joins its own thread: join() throws std::system_error.
StopEnter(t) ==
    /\ Alive
    /\ stopPc[t].at = "enter"
    /\ IF mutex_ = t
       THEN /\ stopPc' = [stopPc EXCEPT ![t].at = "hung"]
            /\ trace' = [trace EXCEPT !.selfLock = stopPc[t].by]
            /\ UNCHANGED <<running_, moq_session_, workers, fault>>
       ELSE /\ mutex_ = "none"
            /\ t # "worker" => ~InStop("worker")
            /\ IF ~running_
               THEN /\ stopPc' = [stopPc EXCEPT ![t] = NoStop]
                    /\ UNCHANGED <<running_, moq_session_, workers, fault, trace>>
               ELSE /\ running_' = FALSE
                    \* if (moq_client_) moq_session_->close();
                    /\ fault' = (moq_client_ /\ moq_session_ = "null")
                    /\ moq_session_' = IF moq_client_ /\ moq_session_ # "null"
                                       THEN "closed" ELSE moq_session_
                    /\ IF t = "worker" /\ Len(workers) >= 1
                       THEN /\ workers' = [workers EXCEPT ![1].running = FALSE]
                            /\ trace' = [trace EXCEPT !.selfJoin = stopPc[t].by]
                            /\ stopPc' = [stopPc EXCEPT ![t] = NoStop]
                       ELSE /\ workers' = stop_all_workers(workers)
                            /\ stopPc' = [stopPc EXCEPT ![t].at = "join"]
                            /\ UNCHANGED trace
    /\ UNCHANGED <<moq_client_, reconnect_on_failure, first_reconnect_attempt_,
                   sinceStamp, mutex_, sessPc, waitLeft, joinable>>
    /\ SessionFrame

\* Session::stop() from the join on: session_thread_.join(),
\* cleanup_connections().  join() on the calling thread itself throws
\* std::system_error, which session_loop catches.
StopJoin(t) ==
    /\ Alive
    /\ stopPc[t].at = "join"
    /\ IF joinable /\ t = "session"
       THEN /\ trace' = [trace EXCEPT !.selfJoin = stopPc[t].by]
            /\ sessPc' = "top"
            /\ UNCHANGED <<joinable, workers, moq_session_, moq_client_>>
       ELSE /\ joinable => sessPc = "exited"
            /\ joinable' = FALSE
            /\ workers' = << >>
            /\ moq_session_' = "null"
            /\ moq_client_' = FALSE
            /\ UNCHANGED <<trace, sessPc>>
    /\ stopPc' = [stopPc EXCEPT ![t] = NoStop]
    /\ UNCHANGED <<running_, reconnect_on_failure, first_reconnect_attempt_,
                   sinceStamp, mutex_, waitLeft, fault>>
    /\ SessionFrame

SessionStep == Alive /\ ~InStop("session")

\* session_loop: the loop condition and the health check
LoopTop ==
    /\ SessionStep
    /\ sessPc = "top"
    /\ IF ~running_
       THEN sessPc' = "exited" /\ UNCHANGED waitLeft
       ELSE IF moq_session_ # "null" /\ NotAlive(moq_session_)
       THEN sessPc' = "disconnected" /\ UNCHANGED waitLeft
       ELSE sessPc' = "wait" /\ waitLeft' = WaitInterval * TicksPerSec
    /\ UNCHANGED <<running_, moq_client_, moq_session_, reconnect_on_failure,
                   first_reconnect_attempt_, sinceStamp, workers, mutex_,
                   joinable, stopPc, trace, fault>>
    /\ SessionFrame

\* session_loop: notify_error("MoQ session disconnected ..."); the error
\* callback may call stop()
NotifyDisconnected(cbStop) ==
    /\ SessionStep
    /\ sessPc = "disconnected"
    /\ sessPc' = "decide"
    /\ stopPc' = IF cbStop
                 THEN [stopPc EXCEPT !["session"] = [at |-> "enter", by |-> "callback"]]
                 ELSE stopPc
    /\ UNCHANGED <<running_, moq_client_, moq_session_, reconnect_on_failure,
                   first_reconnect_attempt_, sinceStamp, workers, mutex_,
                   waitLeft, joinable, trace, fault>>
    /\ SessionFrame

\* session_loop: stop when reconnection is disabled, else decide whether the
\* interval since last_reconnect_attempt_ has elapsed
Decide ==
    /\ SessionStep
    /\ sessPc = "decide"
    /\ IF StopsOnFailure(reconnect_on_failure)
       THEN /\ stopPc' = [stopPc EXCEPT !["session"] = [at |-> "enter", by |-> "loop"]]
            /\ sessPc' = "break"
            /\ UNCHANGED <<first_reconnect_attempt_, sinceStamp, waitLeft, trace>>
       ELSE IF ShouldAttemptReconnect(first_reconnect_attempt_, sinceStamp)
       THEN /\ sinceStamp' = 0
            /\ first_reconnect_attempt_' = FALSE
            /\ sessPc' = "rc_enter"
            /\ trace' = [trace EXCEPT !.called = TRUE, !.prevOk = FALSE,
                                      !.sinceAttempt = 0,
                                      !.hasGap = trace.called,
                                      !.lastGap = trace.sinceAttempt,
                                      !.gapPrevOk = trace.prevOk]
            /\ UNCHANGED <<stopPc, waitLeft>>
       ELSE /\ sessPc' = "wait"
            /\ waitLeft' = WaitInterval * TicksPerSec
            /\ UNCHANGED <<stopPc, first_reconnect_attempt_, sinceStamp, trace>>
    /\ UNCHANGED <<running_, moq_client_, moq_session_, reconnect_on_failure,
                   workers, mutex_, joinable, fault>>
    /\ SessionFrame

\* session_loop: "break" after stop() returned
Break ==
    /\ SessionStep
    /\ sessPc = "break"
    /\ sessPc' = "exited"
    /\ UNCHANGED <<running_, moq_client_, moq_session_, reconnect_on_failure,
                   first_reconnect_attempt_, sinceStamp, workers, mutex_,
                   waitLeft, joinable, stopPc, trace, fault>>
    /\ SessionFrame

\* reconnect(): take mutex_; return false when not running
ReconnectEnter ==
    /\ SessionStep
    /\ sessPc = "rc_enter"
    /\ mutex_ = "none"
    /\ IF ~running_
       THEN sessPc' = "rc_failed" /\ UNCHANGED mutex_
       ELSE sessPc' = "rc_stop_workers" /\ mutex_' = "session"
    /\ UNCHANGED <<running_, moq_client_, moq_session_, reconnect_on_failure,
                   first_reconnect_attempt_, sinceStamp, workers,
                   waitLeft, joinable, stopPc, trace, fault>>
    /\ SessionFrame

\* reconnect(): stop_all_workers(), which joins every worker thread
ReconnectStopWorkers ==
    /\ SessionStep
    /\ sessPc = "rc_stop_workers"
    /\ ~InStop("worker")
    /\ workers' = stop_all_workers(workers)
    /\ sessPc' = "rc_close"
    /\ UNCHANGED <<running_, moq_client_, moq_session_, reconnect_on_failure,
                   first_reconnect_attempt_, sinceStamp, mutex_,
                   waitLeft, joinable, stopPc, trace, fault>>
    /\ SessionFrame

\* reconnect(): close and release the old session
ReconnectClose ==
    /\ SessionStep
    /\ sessPc = "rc_close"
    /\ moq_session_' = SessionAfterClose(moq_session_)
    /\ sessPc' = "rc_connect"
    /\ UNCHANGED <<running_, moq_client_, reconnect_on_failure,
                   first_reconnect_attempt_, sinceStamp, workers, mutex_,
                   waitLeft, joinable, stopPc, trace, fault>>
    /\ SessionFrame

\* reconnect(): moq_client_->connect(); on failure notify_error is called
\* with mutex_ held and reconnect() returns false
ReconnectConnect(ok, cbStop) ==
    /\ SessionStep
    /\ sessPc = "rc_connect"
    /\ trace' = [trace EXCEPT !.attempts = Sat(@),
                              !.attemptsSinceFailure = Sat(@),
                              !.connectSite = "reconnect"]
    /\ IF ok
       THEN /\ moq_session_' = "alive"
            /\ sessPc' = "rc_start"
            /\ UNCHANGED <<mutex_, stopPc>>
       ELSE /\ sessPc' = "rc_failed"
            /\ UNCHANGED moq_session_
            /\ IF cbStop
               THEN /\ stopPc' = [stopPc EXCEPT
                                    !["session"] = [at |-> "enter", by |-> "callback"]]
                    /\ UNCHANGED mutex_
               ELSE /\ mutex_' = "none"
                    /\ UNCHANGED stopPc
    /\ UNCHANGED <<running_, moq_client_, reconnect_on_failure,
                   first_reconnect_attempt_, sinceStamp, workers,
                   waitLeft, joinable, fault>>
    /\ SessionFrame

\* reconnect(): start_all_workers() on the new session, release mutex_,
\* return true
ReconnectStartWorkers ==
    /\ SessionStep
    /\ sessPc = "rc_start"
    /\ workers' = start_all_workers
    /\ mutex_' = "none"
    /\ sessPc' = "rc_ok"
    /\ trace' = [trace EXCEPT !.prevOk = TRUE]
    /\ UNCHANGED <<running_, moq_client_, moq_session_, reconnect_on_failure,
                   first_reconnect_attempt_, sinceStamp,
                   waitLeft, joinable, stopPc, fault>>
    /\ SessionFrame

\* session_loop: notify_status("Successfully reconnected ..."); the status
\* callback may call stop()
NotifyReconnected(cbStop) ==
    /\ SessionStep
    /\ sessPc = "rc_ok"
    /\ sessPc' = "rc_reset"
    /\ stopPc' = IF cbStop
                 THEN [stopPc EXCEPT !["session"] = [at |-> "enter", by |-> "callback"]]
                 ELSE stopPc
    /\ UNCHANGED <<running_, moq_client_, moq_session_, reconnect_on_failure,
                   first_reconnect_attempt_, sinceStamp, workers, mutex_,
                   waitLeft, joinable, trace, fault>>
    /\ SessionFrame

\* session_loop: "first_reconnect_attempt_ = true; // Reset for next disconnection"
ResetFirstAttempt ==
    /\ SessionStep
    /\ sessPc = "rc_reset"
    /\ first_reconnect_attempt_' = TRUE
    /\ sessPc' = "wait"
    /\ waitLeft' = WaitInterval * TicksPerSec
    /\ UNCHANGED <<running_, moq_client_, moq_session_, reconnect_on_failure,
                   sinceStamp, workers, mutex_, joinable, stopPc, trace, fault>>
    /\ SessionFrame

\* session_loop: notify_error("Failed to reconnect ..., will retry in 3 seconds...")
ReconnectFailed ==
    /\ SessionStep
    /\ sessPc = "rc_failed"
    /\ sessPc' = "wait"
    /\ waitLeft' = WaitInterval * TicksPerSec
    /\ UNCHANGED <<running_, moq_client_, moq_session_, reconnect_on_failure,
                   first_reconnect_attempt_, sinceStamp, workers, mutex_,
                   joinable, stopPc, trace, fault>>
    /\ SessionFrame

\* session_loop: condition_.wait_for(lock, 1 s, [this] { return !running_; })
WaitDone ==
    /\ SessionStep
    /\ sessPc = "wait"
    /\ mutex_ = "none"
    /\ waitLeft = 0 \/ ~running_
    /\ sessPc' = "top"
    /\ waitLeft' = 0
    /\ UNCHANGED <<running_, moq_client_, moq_session_, reconnect_on_failure,
                   first_reconnect_attempt_, sinceStamp, workers, mutex_,
                   joinable, stopPc, trace, fault>>
    /\ SessionFrame

\* the transport of the current session fails
TransportFailure ==
    /\ Alive
    /\ moq_session_ = "alive"
    /\ moq_session_' = "dead"
    /\ trace' = [trace EXCEPT !.attemptsSinceFailure = 0]
    /\ UNCHANGED <<running_, moq_client_, reconnect_on_failure,
                   first_reconnect_attempt_, sinceStamp, workers, mutex_, sessPc,
                   waitLeft, joinable, stopPc, fault>>
    /\ SessionFrame

\* std::chrono::steady_clock advances by one tick
Tick ==
    /\ Alive
    /\ sinceStamp' = Min(sinceStamp + 1, StampCap)
    /\ waitLeft' = IF waitLeft > 0 THEN waitLeft - 1 ELSE 0
    /\ trace' = [trace EXCEPT !.sinceAttempt = Min(@ + 1, StampCap)]
    /\ UNCHANGED <<running_, moq_client_, moq_session_, reconnect_on_failure,
                   first_reconnect_attempt_, workers, mutex_, sessPc,
                   joinable, stopPc, fault>>
    /\ SessionFrame

\* the user destroys the manager object.  The members of the derived class
\* go first: the vector of workers, and each ~Consumer / ~Producer calls
\* stop() on its worker.  Session::~Session() has an empty body and
\* does not call stop(); the members of Session follow, and the destructor
\* of a joinable session_thread_ calls std::terminate.
DestroyManager ==
    /\ Alive
    /\ ~InStop("user")
    /\ workers' = << >>
    /\ IF joinable
       THEN /\ fault' = TRUE
            /\ UNCHANGED <<moq_session_, moq_client_, trace>>
       ELSE /\ trace' = [trace EXCEPT !.destroyed = TRUE]
            /\ moq_session_' = "null"
            /\ moq_client_' = FALSE
            /\ UNCHANGED fault
    /\ UNCHANGED <<running_, reconnect_on_failure, first_reconnect_attempt_,
                   sinceStamp, mutex_, sessPc, waitLeft, joinable, stopPc>>
    /\ SessionFrame

NextSession ==
    \/ \E ok \in BOOLEAN, cbStop \in BOOLEAN : Start(ok, cbStop)
    \/ UserStop
    \/ DataCallbackStop
    \/ \E t \in Threads : StopEnter(t)
    \/ \E t \in Threads : StopJoin(t)
    \/ LoopTop
    \/ \E cbStop \in BOOLEAN : NotifyDisconnected(cbStop)
    \/ Decide
    \/ Break
    \/ ReconnectEnter
    \/ ReconnectStopWorkers
    \/ ReconnectClose
    \/ \E ok \in BOOLEAN, cbStop \in BOOLEAN : ReconnectConnect(ok, cbStop)
    \/ ReconnectStartWorkers
    \/ \E cbStop \in BOOLEAN : NotifyReconnected(cbStop)
    \/ ResetFirstAttempt
    \/ ReconnectFailed
    \/ WaitDone
    \/ TransportFailure
    \/ Tick
    \/ DestroyManager

AllStopped == \A i \in 1..Len(workers) : ~workers[i].running
AllRunning == /\ Len(workers) = NumConfigs
              /\ \A i \in 1..NumConfigs : workers[i].cfg = i /\ workers[i].running

SpecSession == InitSession /\ [][NextSession]_vars

\* the steps of the session thread (session_loop and what it calls)
SessionThreadStep ==
    \/ LoopTop
    \/ \E cbStop \in BOOLEAN : NotifyDisconnected(cbStop)
    \/ Decide
    \/ Break
    \/ ReconnectEnter
    \/ ReconnectStopWorkers
    \/ ReconnectClose
    \/ \E ok \in BOOLEAN, cbStop \in BOOLEAN : ReconnectConnect(ok, cbStop)
    \/ ReconnectStartWorkers
    \/ \E cbStop \in BOOLEAN : NotifyReconnected(cbStop)
    \/ ResetFirstAttempt
    \/ ReconnectFailed
    \/ WaitDone

\* the session thread is scheduled, the clock advances, and a thread that
\* is inside stop() is scheduled
SpecSessionLive ==
    /\ SpecSession
    /\ WF_vars(SessionThreadStep)
    /\ WF_vars(Tick)
    /\ \A t \in Threads : WF_vars(StopEnter(t)) /\ WF_vars(StopJoin(t))

\* no callback has called stop(), now or earlier
NoCallbackStop ==
    /\ \A t \in Threads : stopPc[t].by # "callback"
    /\ trace.selfLock # "callback" /\ trace.selfJoin # "callback"

\* C31: a stop() called by the user on a started manager returns with
\* is_running() false -- also when the call follows a failed reconnection
\* attempt (callbacks that call stop() themselves set aside)
C31_StopTerminates ==
    []((stopPc["user"] = [at |-> "enter", by |-> "api"] /\ running_ /\ ~fault
          /\ NoCallbackStop)
        => <>((stopPc["user"].at = "none" /\ ~running_) \/ ~NoCallbackStop))

\* C30: with reconnect_on_failure not set, the stop() that session_loop calls
\* when the session is no longer alive returns with is_running() false, all
\* workers stopped and the connections cleaned up
C30_StopOnFailureCleansUp ==
    [][(stopPc["session"] = [at |-> "join", by |-> "loop"]
          /\ stopPc'["session"].at = "none")
       => /\ ~running_'
          /\ \A i \in 1..Len(workers') : ~workers'[i].running
          /\ moq_session_' = "null" /\ ~moq_client_']_vars

\* C29: while the manager runs with reconnect_on_failure set, a failed
\* reconnection attempt is followed by a further attempt (unless stop() is
\* called or the process has crashed in the meantime)
C29_RetryAfterFailedReconnect ==
    [](( /\ sessPc = "rc_failed" /\ running_ /\ reconnect_on_failure
         /\ \A t \in Threads : ~InStop(t) )
        => <>(sessPc = "rc_connect" \/ ~running_ \/ fault
              \/ \E t \in Threads : InStop(t)))

\* C38: every connect() call of a manager, in start() and in reconnect(),
\* passes the session mode the manager was constructed with
C38_ConnectsWithOwnMode ==
    \A m \in ManagerModes :
        trace.connectSite # "none" => connect_mode(trace.connectSite, m) = m

\* C40: destroying a manager that is still running stops it first: when
\* the destructor is done the process is intact, is_running() is false, and
\* the session thread and every worker thread have been joined
C40_DestroyStopsFirst ==
    [][(DestroyManager /\ running_)
        => (~fault' /\ ~running_' /\ ~joinable' /\ AllStopped')]_vars

\* C6: stop() called from inside a callback never makes a thread join
\* itself or lock the mutex it already holds
C6_NoSelfDeadlock ==
    trace.selfLock # "callback" /\ trace.selfJoin # "callback"

C7_NoReconnectWhenDisabled ==
    ~reconnect_on_failure => trace.attempts = 0
C7_Witness ==
    /\ ~reconnect_on_failure
    /\ NotAlive(moq_session_)
    /\ sessPc = "exited"
    /\ trace.selfJoin = "loop"

RetryIntervalMgr == 5                   \* seconds, moq-mgr
RetryIntervalCpp == 3                   \* seconds, moq-mgr-cpp
InitialAgeCpp == 5                      \* seconds, moq-mgr-cpp: now() - 5 s
RetryWaitInterval == 1                  \* seconds

Variants == {"moq-mgr", "moq-mgr-cpp"}
retry_interval(v) == IF v = "moq-mgr" THEN RetryIntervalMgr ELSE RetryIntervalCpp
RetryCap == RetryIntervalMgr * TicksPerSec

\* Consumer::establish_subscription.  ok: consume() and subscribeTrack() both
\* return an object.  moq-mgr asks the session for the broadcast on every
\* call.  moq-mgr-cpp calls subscribeTrack() through its own moq_consumer_,
\* which it resets on failure: the next call dereferences a null shared_ptr,
\* and ub is what the build makes of that ("crash", or "null" for a call
\* that returns nullptr).
establish_subscription(v, cons, ok, ub) ==
    IF v = "moq-mgr"
    THEN IF ok
         THEN [result |-> TRUE,  track |-> "set",  consumer |-> "set",  crashed |-> FALSE]
         ELSE [result |-> FALSE, track |-> "null", consumer |-> "null", crashed |-> FALSE]
    ELSE IF cons = "null"
         THEN [result |-> FALSE, track |-> "null", consumer |-> "null",
               crashed |-> (ub = "crash")]
         ELSE IF ok
         THEN [result |-> TRUE,  track |-> "set",  consumer |-> cons,   crashed |-> FALSE]
         ELSE [result |-> FALSE, track |-> "null", consumer |-> "null", crashed |-> FALSE]

\* whether the worker invokes a status callback for an establishment
\* attempt: neither consumer_loop nor establish_subscription calls one
\* ("Silently return false")
reports_attempt(v, result) == FALSE

RetryFrame ==
    /\ UNCHANGED <<requested_subscriptions_, available_tracks_, consumers_,
                   catalog_consumer, moq_consumer_>>
    /\ UNCHANGED <<group, readPos, delivered, wPc>>
    /\ UNCHANGED sessionVars
    /\ UNCHANGED announceVars
    /\ UNCHANGED lockVars
    /\ UNCHANGED wrapVars

\* Consumer constructor and start(): the thread enters consumer_loop
InitRetry ==
    /\ variant \in Variants
    /\ subscription_established = FALSE
    /\ moq_track_consumer_ = "null"
    /\ worker_moq_consumer_ = IF variant = "moq-mgr" THEN "null" ELSE "set"
    /\ sinceRetry = IF variant = "moq-mgr" THEN 0 ELSE InitialAgeCpp * TicksPerSec
    /\ retryPc = "top"
    /\ retryWait = 0
    /\ establishable \in BOOLEAN
    /\ w_running = TRUE
    /\ group = << >> /\ readPos = 0 /\ delivered = << >> /\ wPc = "idle"
    /\ CatalogDefaults
    /\ SessionDefaults
    /\ AnnounceDefaults
    /\ LockDefaults
    /\ WrapDefaults

\* consumer_loop: the loop condition and the "Try to establish subscription"
\* block
ConsumerLoopTop(ub) ==
    /\ RetryFrame
    /\ ~fault
    /\ retryPc = "top"
    /\ IF ~w_running
       THEN /\ retryPc' = "exited"
            /\ UNCHANGED <<subscription_established, moq_track_consumer_,
                           worker_moq_consumer_, sinceRetry, retryWait, fault, hist>>
       ELSE IF subscription_established
       THEN /\ retryPc' = "next_group"
            /\ UNCHANGED <<subscription_established, moq_track_consumer_,
                           worker_moq_consumer_, sinceRetry, retryWait, fault, hist>>
       ELSE IF sinceRetry >= retry_interval(variant) * TicksPerSec
       THEN LET r == establish_subscription(variant, worker_moq_consumer_,
                                            establishable, ub) IN
            /\ fault' = r.crashed
            /\ subscription_established' = r.result
            /\ moq_track_consumer_' = r.track
            /\ worker_moq_consumer_' = r.consumer
            /\ sinceRetry' = IF r.result THEN sinceRetry ELSE 0
            /\ retryPc' = IF r.result THEN "next_group" ELSE "wait"
            /\ retryWait' = IF r.result THEN retryWait
                            ELSE RetryWaitInterval * TicksPerSec
            /\ hist' = [op |-> "establish", result |-> r.result,
                        retry |-> (hist.op = "establish"),
                        reported |-> reports_attempt(variant, r.result),
                        gap |-> IF hist.op = "establish" THEN hist.age ELSE 0,
                        age |-> 0]
       ELSE /\ retryPc' = "wait"
            /\ retryWait' = RetryWaitInterval * TicksPerSec
            /\ UNCHANGED <<subscription_established, moq_track_consumer_,
                           worker_moq_consumer_, sinceRetry, fault, hist>>
    /\ UNCHANGED <<variant, establishable, w_running>>

\* consumer_loop: condition_.wait_for(lock, 1 s, [this] { return !running_; })
ConsumerWaitDone ==
    /\ RetryFrame
    /\ UNCHANGED hist
    /\ ~fault
    /\ retryPc = "wait"
    /\ retryWait = 0 \/ ~w_running
    /\ retryPc' = "top"
    /\ retryWait' = 0
    /\ UNCHANGED <<variant, subscription_established, moq_track_consumer_,
                   worker_moq_consumer_, sinceRetry, establishable, w_running, fault>>

\* consumer_loop: nextGroup() returns; a group is read to its end, a null
\* group ends the subscription
NextGroupResult(gotGroup) ==
    /\ RetryFrame
    /\ UNCHANGED hist
    /\ ~fault
    /\ retryPc = "next_group"
    /\ retryPc' = "top"
    /\ IF gotGroup
       THEN UNCHANGED <<subscription_established, moq_track_consumer_,
                        worker_moq_consumer_, sinceRetry>>
       ELSE /\ subscription_established' = FALSE
            /\ moq_track_consumer_' = "null"
            /\ worker_moq_consumer_' = IF variant = "moq-mgr" THEN "null"
                                       ELSE worker_moq_consumer_
            /\ sinceRetry' = IF variant = "moq-mgr" THEN 0 ELSE sinceRetry
    /\ UNCHANGED <<variant, retryWait, establishable, w_running, fault>>

\* Consumer::stop(): the manager stops the worker (stop, or track withdrawn)
RetryStop ==
    /\ RetryFrame
    /\ UNCHANGED hist
    /\ ~fault
    /\ w_running
    /\ w_running' = FALSE
    /\ UNCHANGED <<retryVars, fault>>

\* the publisher announces the broadcast and the track: from now on
\* consume() and subscribeTrack() succeed
BecomesEstablishable ==
    /\ RetryFrame
    /\ UNCHANGED hist
    /\ ~fault
    /\ ~establishable
    /\ establishable' = TRUE
    /\ UNCHANGED <<variant, subscription_established, moq_track_consumer_,
                   worker_moq_consumer_, sinceRetry, retryPc, retryWait,
                   w_running, fault>>

\* std::chrono::steady_clock advances by one tick
RetryTick ==
    /\ RetryFrame
    /\ ~fault
    /\ \/ sinceRetry < RetryCap \/ retryWait > 0
       \/ hist.op = "establish" /\ hist.age < RetryCap
    \* ticks since the latest establishment attempt (saturating)
    /\ hist' = IF hist.op = "establish"
               THEN [hist EXCEPT !.age = Min(hist.age + 1, RetryCap)]
               ELSE hist
    /\ sinceRetry' = Min(sinceRetry + 1, RetryCap)
    /\ retryWait' = IF retryWait > 0 THEN retryWait - 1 ELSE 0
    /\ UNCHANGED <<variant, subscription_established, moq_track_consumer_,
                   worker_moq_consumer_, retryPc, establishable, w_running, fault>>

NextRetry ==
    \/ \E ub \in {"crash", "null"} : ConsumerLoopTop(ub)
    \/ ConsumerWaitDone
    \/ \E gotGroup \in BOOLEAN : NextGroupResult(gotGroup)
    \/ RetryStop
    \/ BecomesEstablishable
    \/ RetryTick

SpecRetry == InitRetry /\ [][NextRetry]_vars

\* the worker thread is scheduled and the clock advances
SpecRetryLive ==
    /\ SpecRetry
    /\ WF_vars(\E ub \in {"crash", "null"} : ConsumerLoopTop(ub))
    /\ WF_vars(ConsumerWaitDone)
    /\ WF_vars(RetryTick)

\* C26: each retry of subscription establishment made by a worker is reported
\* through the status callback
C26_RetryReported ==
    (hist.op = "establish" /\ hist.retry) => hist.reported

\* C32: once stop() has cleared running_, the worker thread leaves
\* consumer_loop (so that the join inside stop() returns) even if the peer
\* never produces another group
C32_StopReturns ==
    (~w_running /\ ~fault) ~> (retryPc = "exited" \/ fault)

\* C37: an establishment attempt of a worker comes at least the retry
\* interval (5 s in moq-mgr, 3 s in moq-mgr-cpp) after the previous attempt
\* of that worker, also when the previous attempt succeeded and the
\* subscription has ended since
C37_AttemptsSpacedByInterval ==
    (hist.op = "establish" /\ hist.retry /\ hist.age = 0)
        => hist.gap >= retry_interval(variant) * TicksPerSec

\* C11: once establishment is possible and the worker is running, the worker
\* eventually establishes the subscription (or is stopped first)
C11_EventuallyEstablished ==
    (establishable /\ w_running) ~> (subscription_established \/ ~w_running)

(***************************************************************************)
(* ConsumerSession: handle_connected and announcement_loop of both         *)
(* managers (moq-mgr-cpp-old and moq-mgr)                                  *)
(***************************************************************************)
MgrVariants == {"moq-mgr-cpp-old", "moq-mgr"}

\* ConsumerSession::handle_connected: moq-mgr calls consume(namespace) here,
\* moq-mgr-cpp-old only starts the announcement thread
handle_connected(v, cons, consumeOk) ==
    IF v = "moq-mgr"
    THEN [consumer |-> IF consumeOk THEN "set" ELSE "null", consumed |-> TRUE]
    ELSE [consumer |-> cons, consumed |-> FALSE]

\* start_catalog_consumer(): make_unique<Consumer>(moq_consumer_, ...) throws
\* std::invalid_argument on a null moq_consumer_; announcement_loop catches it
start_catalog_consumer(cat, cons) == IF cons = "null" THEN cat ELSE "running"

\* one iteration of ConsumerSession::announcement_loop that received an
\* announcement
announcement_loop(v, path, active, consumeOk, cat, cons) ==
    IF v = "moq-mgr-cpp-old"
    THEN IF path # Namespace
         THEN [catalog |-> cat, consumer |-> cons, crashed |-> FALSE, consumed |-> FALSE]
         ELSE IF active
         THEN [catalog  |-> IF consumeOk THEN "running" ELSE cat,
               consumer |-> IF consumeOk THEN "set" ELSE "null",
               crashed  |-> FALSE, consumed |-> TRUE]
         ELSE [catalog |-> "null", consumer |-> cons,
               crashed |-> (cat = "null"), consumed |-> FALSE]
    ELSE IF path # Namespace
         THEN [catalog |-> cat, consumer |-> cons, crashed |-> FALSE, consumed |-> FALSE]
         ELSE IF active
         THEN [catalog |-> start_catalog_consumer(cat, cons), consumer |-> cons,
               crashed |-> FALSE, consumed |-> FALSE]
         ELSE [catalog |-> "null", consumer |-> cons,
               crashed |-> (cat = "null"), consumed |-> FALSE]

AnnounceFrame ==
    /\ UNCHANGED <<requested_subscriptions_, available_tracks_, consumers_>>
    /\ UNCHANGED workerVars
    /\ UNCHANGED sessionVars
    /\ UNCHANGED retryVars
    /\ UNCHANGED lockVars
    /\ UNCHANGED wrapVars

InitAnnounce ==
    /\ mgrVariant \in MgrVariants
    /\ announcePc = "none"
    /\ announceSeen = FALSE
    /\ consumeCalls = 0
    /\ CatalogDefaults
    /\ WorkerDefaults
    /\ SessionDefaults
    /\ RetryDefaults
    /\ LockDefaults
    /\ WrapDefaults

\* the session is connected: handle_connected(), and the first lines of
\* announcement_loop, which returns when getOriginConsumer() yields null
HandleConnected(consumeOk, originOk) ==
    /\ AnnounceFrame
    /\ ~fault
    /\ announcePc = "none"
    /\ announcePc' = IF originOk THEN "loop" ELSE "exited"
    /\ LET r == handle_connected(mgrVariant, moq_consumer_, consumeOk) IN
       /\ moq_consumer_' = r.consumer
       /\ consumeCalls' = IF r.consumed THEN Sat(consumeCalls) ELSE consumeCalls
    /\ hist' = [op |-> "connected", originOk |-> originOk]
    /\ UNCHANGED <<mgrVariant, announceSeen, catalog_consumer, fault>>

\* origin_consumer->announced() returned an announcement
Announced(path, active, consumeOk) ==
    /\ AnnounceFrame
    /\ ~fault
    /\ announcePc = "loop"
    /\ LET r == announcement_loop(mgrVariant, path, active, consumeOk,
                                  catalog_consumer, moq_consumer_) IN
       /\ catalog_consumer' = r.catalog
       /\ moq_consumer_' = r.consumer
       /\ fault' = r.crashed
       /\ consumeCalls' = IF r.consumed THEN Sat(consumeCalls) ELSE consumeCalls
    /\ announceSeen' = (announceSeen \/ (path = Namespace /\ active))
    /\ hist' = [op |-> "announce", path |-> path, active |-> active,
                prevCatalog |-> catalog_consumer, prevConsumer |-> moq_consumer_]
    /\ UNCHANGED <<mgrVariant, announcePc>>

\* announcement_loop: running_ is false, the loop ends
AnnouncementLoopExit ==
    /\ AnnounceFrame
    /\ ~fault
    /\ announcePc = "loop"
    /\ announcePc' = "exited"
    /\ hist' = [op |-> "loop_exit"]
    /\ UNCHANGED <<mgrVariant, announceSeen, consumeCalls, catalog_consumer,
                   moq_consumer_, fault>>

\* handle_disconnected(): the announcement thread is joined
HandleDisconnected ==
    /\ AnnounceFrame
    /\ ~fault
    /\ announcePc = "exited"
    /\ announcePc' = "none"
    /\ hist' = [op |-> "disconnected"]
    /\ UNCHANGED <<mgrVariant, announceSeen, consumeCalls, catalog_consumer,
                   moq_consumer_, fault>>

NextAnnounce ==
    \/ \E consumeOk \in BOOLEAN, originOk \in BOOLEAN : HandleConnected(consumeOk, originOk)
    \/ \E path \in Paths, active \in BOOLEAN, consumeOk \in BOOLEAN :
          Announced(path, active, consumeOk)
    \/ AnnouncementLoopExit
    \/ HandleDisconnected

SpecAnnounce == InitAnnounce /\ [][NextAnnounce]_vars

\* C12: consume(namespace) is called and the catalog consumer started only
\* after Announce{path = namespace, active = true} has been observed, and an
\* announcement for another path neither starts nor stops the catalog consumer
C12_AnnounceGating ==
    /\ ~announceSeen => (consumeCalls = 0 /\ catalog_consumer = "null")
    /\ (hist.op = "announce" /\ hist.path # Namespace)
          => catalog_consumer = hist.prevCatalog

(***************************************************************************)
(* The manager lock: which thread holds Session::mutex_ while it touches   *)
(* requested / available / workers or calls a worker's start() or stop()   *)
(***************************************************************************)
LockThreads == {"catalog", "session", "user"}

\* the manager state a thread reads or writes at its position
\*   catalog: process_catalog_data (clear), check_subscriptions (passes)
\*   session: reconnect()            user: stop() and start()
Accessed(t) ==
    CASE t = "catalog" /\ lockPc[t] = "clear"        -> {"available"}
      [] t = "catalog" /\ lockPc[t] = "first_pass"   -> {"available", "workers"}
      [] t = "catalog" /\ lockPc[t] = "second_pass"  -> {"requested", "available", "workers"}
      [] t = "session" /\ lockPc[t] = "rc_stop_all"  -> {"workers"}
      [] t = "session" /\ lockPc[t] = "rc_start_all" -> {"requested", "workers"}
      [] t = "user"    /\ lockPc[t] = "stop_all"     -> {"workers"}
      [] t = "user"    /\ lockPc[t] = "cleanup"      -> {"workers"}
      [] t = "user"    /\ lockPc[t] = "start_all"    -> {"requested", "workers"}
      [] OTHER -> {}

\* the thread is inside a call of Consumer::start() or Consumer::stop()
CallsWorker(t) ==
    \/ t = "catalog" /\ lockPc[t] \in {"first_pass", "second_pass"}
    \/ t = "session" /\ lockPc[t] \in {"rc_stop_all", "rc_start_all"}
    \/ t = "user"    /\ lockPc[t] \in {"stop_all", "start_all"}

LockFrame ==
    /\ UNCHANGED catalogVars
    /\ UNCHANGED workerVars
    /\ UNCHANGED <<moq_client_, moq_session_, reconnect_on_failure,
                   first_reconnect_attempt_, sinceStamp, sessPc,
                   waitLeft, joinable, stopPc, trace>>
    /\ UNCHANGED <<retryVars, announceVars, wrapVars>>

\* a started manager: session_loop runs, the catalog consumer is subscribed
InitLock ==
    /\ lockPc = [t \in LockThreads |-> IF t = "session" THEN "loop" ELSE "idle"]
    /\ running_ = TRUE
    /\ mutex_ = "none"
    /\ moq_client_ = FALSE /\ moq_session_ = "null"
    /\ reconnect_on_failure = FALSE /\ first_reconnect_attempt_ = TRUE
    /\ workers = start_all_workers
    /\ sinceStamp = 0 /\ sessPc = "none" /\ waitLeft = 0
    /\ joinable = FALSE /\ stopPc = << >> /\ trace = NoHist
    /\ CatalogDefaults
    /\ WorkerDefaults
    /\ RetryDefaults
    /\ AnnounceDefaults
    /\ WrapDefaults

\* process_catalog_data: a frame arrives; available_tracks_.clear() and the
\* stores into available_tracks_ run outside any lock
CatalogFrameBegins ==
    /\ LockFrame
    /\ lockPc["catalog"] = "idle"
    /\ lockPc' = [lockPc EXCEPT !["catalog"] = "clear"]
    /\ UNCHANGED <<mutex_, running_, workers>>

\* check_subscriptions: std::lock_guard lock(mutex_)
CheckSubscriptionsLock ==
    /\ LockFrame
    /\ lockPc["catalog"] = "clear"
    /\ mutex_ = "none"
    /\ mutex_' = "catalog"
    /\ lockPc' = [lockPc EXCEPT !["catalog"] = "first_pass"]
    /\ UNCHANGED <<running_, workers>>

\* check_subscriptions: the first pass is done; gone is whether the track of
\* the first worker was missing from available_tracks_ (stop and erase)
CheckFirstPassDone(gone) ==
    /\ LockFrame
    /\ lockPc["catalog"] = "first_pass"
    /\ lockPc' = [lockPc EXCEPT !["catalog"] = "second_pass"]
    /\ workers' = IF gone THEN SelectSeq(workers, LAMBDA w : w.cfg # 1) ELSE workers
    /\ UNCHANGED <<mutex_, running_>>

\* check_subscriptions: the second pass starts and pushes a worker for the
\* first subscription when it is available and has none; mutex_ is released;
\* the loop over the entries goes on with the next entry or the frame is done
CheckSecondPassDone(more, avail) ==
    /\ LockFrame
    /\ lockPc["catalog"] = "second_pass"
    /\ workers' = IF avail /\ ~\E i \in 1..Len(workers) : workers[i].cfg = 1
                  THEN Append(workers, [cfg |-> 1, running |-> TRUE])
                  ELSE workers
    /\ mutex_' = "none"
    /\ lockPc' = [lockPc EXCEPT !["catalog"] = IF more THEN "clear" ELSE "idle"]
    /\ UNCHANGED running_

\* session_loop: running_ is false, the thread ends
LockSessionExit ==
    /\ LockFrame
    /\ lockPc["session"] = "loop"
    /\ ~running_
    /\ lockPc' = [lockPc EXCEPT !["session"] = "exited"]
    /\ UNCHANGED <<mutex_, running_, workers>>

\* reconnect(): std::lock_guard lock(mutex_); return false when not running
LockReconnectEnter ==
    /\ LockFrame
    /\ lockPc["session"] = "loop"
    /\ mutex_ = "none"
    /\ running_
    /\ mutex_' = "session"
    /\ lockPc' = [lockPc EXCEPT !["session"] = "rc_stop_all"]
    /\ UNCHANGED <<running_, workers>>

\* reconnect(): stop_all_workers() / close and connect / start_all_workers(),
\* then the lock_guard is released
LockReconnectStep ==
    /\ LockFrame
    /\ lockPc["session"] \in {"rc_stop_all", "rc_connect", "rc_start_all"}
    /\ lockPc' = [lockPc EXCEPT !["session"] =
                     CASE @ = "rc_stop_all"  -> "rc_connect"
                       [] @ = "rc_connect"   -> "rc_start_all"
                       [] @ = "rc_start_all" -> "loop"]
    /\ mutex_' = IF lockPc["session"] = "rc_start_all" THEN "none" ELSE mutex_
    /\ workers' = CASE lockPc["session"] = "rc_stop_all"  -> stop_all_workers(workers)
                     [] lockPc["session"] = "rc_connect"   -> workers
                     [] lockPc["session"] = "rc_start_all" -> start_all_workers
    /\ UNCHANGED running_

\* stop(): running_ is cleared under mutex_, which is released before
\* stop_all_workers()
LockStopEnter ==
    /\ LockFrame
    /\ lockPc["user"] = "idle"
    /\ mutex_ = "none"
    /\ running_
    /\ running_' = FALSE
    /\ lockPc' = [lockPc EXCEPT !["user"] = "stop_all"]
    /\ UNCHANGED <<mutex_, workers>>

\* stop(): stop_all_workers() is done; session_thread_.join() returns when
\* the session thread has ended; cleanup_connections() clears consumers_
LockStopStep ==
    /\ LockFrame
    /\ lockPc["user"] \in {"stop_all", "join", "cleanup"}
    /\ lockPc["user"] = "join" => lockPc["session"] = "exited"
    /\ lockPc' = [lockPc EXCEPT !["user"] =
                     CASE @ = "stop_all" -> "join"
                       [] @ = "join"     -> "cleanup"
                       [] @ = "cleanup"  -> "stopped"]
    /\ workers' = CASE lockPc["user"] = "stop_all" -> stop_all_workers(workers)
                     [] lockPc["user"] = "join"     -> workers
                     [] lockPc["user"] = "cleanup"  -> << >>
    /\ UNCHANGED <<mutex_, running_>>

\* start(): the whole body, start_all_workers() included, runs under mutex_
LockStartEnter ==
    /\ LockFrame
    /\ lockPc["user"] = "stopped"
    /\ mutex_ = "none"
    /\ mutex_' = "user"
    /\ running_' = TRUE
    /\ lockPc' = [lockPc EXCEPT !["user"] = "start_all"]
    /\ UNCHANGED workers

\* start(): session_thread_ is created and the lock_guard released
LockStartDone ==
    /\ LockFrame
    /\ lockPc["user"] = "start_all"
    /\ mutex_' = "none"
    /\ lockPc' = [lockPc EXCEPT !["user"] = "idle", !["session"] = "loop"]
    /\ workers' = start_all_workers
    /\ UNCHANGED running_

NextLock ==
    \/ CatalogFrameBegins
    \/ CheckSubscriptionsLock
    \/ \E gone \in BOOLEAN : CheckFirstPassDone(gone)
    \/ \E more \in BOOLEAN, avail \in BOOLEAN : CheckSecondPassDone(more, avail)
    \/ LockSessionExit
    \/ LockReconnectEnter
    \/ LockReconnectStep
    \/ LockStopEnter
    \/ LockStopStep
    \/ LockStartEnter
    \/ LockStartDone

SpecLock == InitLock /\ [][NextLock]_vars

\* C16: no thread holds the manager lock while it is inside a worker's
\* start() or stop()
C16_NoLockAcrossWorkerCalls ==
    \A t \in LockThreads : CallsWorker(t) => mutex_ # t

\* C17: a thread that reads or writes requested, available or workers holds
\* the manager lock
C17_StateAccessUnderLock ==
    \A t \in LockThreads : Accessed(t) # {} => mutex_ = t

(***************************************************************************)
(* moq::GroupProducer                                 (cpp/src/moq_group.cpp) *)
(***************************************************************************)
\* what a caller passes to writeFrame: a payload, an empty payload, or (the
\* pointer overload only) a null pointer
WriteArgs == Payloads \cup { << >> }

\* variant of writeFrame without the finished_ test
writeFrame_NoFinishedCheck(finished, handle, dataNull, ffiOk) ==
    IF handle # "set" \/ dataNull
    THEN [result |-> FALSE, accepted |-> FALSE]
    ELSE [result |-> ffiOk, accepted |-> ffiOk]

\* GroupProducer::writeFrame (the three overloads; dataNull is the "!data"
\* test of the pointer overload); ffiOk: moq_group_producer_write_frame
\* returned MoqResult::Success, that is, the group took the frame
writeFrame(finished, handle, dataNull, ffiOk) ==
    IF finished \/ handle # "set" \/ dataNull
    THEN [result |-> FALSE, accepted |-> FALSE]
    ELSE [result |-> ffiOk, accepted |-> ffiOk]

\* GroupProducer::finish: whether it calls moq_group_producer_finish, the
\* graceful end of the group
finish_calls_ffi(finished, handle) == ~finished /\ handle = "set"

GroupFrame ==
    /\ UNCHANGED <<requested_subscriptions_, available_tracks_, consumers_,
                   catalog_consumer, moq_consumer_, fault>>
    /\ UNCHANGED workerVars
    /\ UNCHANGED sessionVars
    /\ UNCHANGED <<retryVars, announceVars, lockVars, closeVars, restVars>>

\* GroupProducer constructor
InitGroup ==
    /\ groupHandle \in {"set", "null"}
    /\ finished_ = FALSE
    /\ written = << >>
    /\ atFinish = << >>
    /\ CatalogDefaults
    /\ WorkerDefaults
    /\ SessionDefaults
    /\ RetryDefaults /\ AnnounceDefaults /\ LockDefaults /\ CloseDefaults
    /\ RestDefaults

\* a call of GroupProducer::writeFrame
WriteFrame(data, dataNull, ffiOk) ==
    /\ GroupFrame
    /\ groupHandle # "freed"
    /\ Len(written) < MaxFrames
    /\ LET r == writeFrame(finished_, groupHandle, dataNull, ffiOk) IN
       /\ written' = IF r.accepted THEN Append(written, data) ELSE written
       /\ hist' = [op |-> "write", wasFinished |-> finished_, result |-> r.result,
                   prevWritten |-> written]
    /\ UNCHANGED <<groupHandle, finished_, atFinish>>

\* GroupProducer::finish
Finish ==
    /\ GroupFrame
    /\ groupHandle # "freed"
    /\ finished_' = TRUE
    /\ atFinish' = IF finished_ THEN atFinish ELSE written
    /\ hist' = [op |-> "finish", wasFinished |-> finished_,
                ffiFinish |-> finish_calls_ffi(finished_, groupHandle)]
    /\ UNCHANGED <<groupHandle, written>>

\* GroupProducer destructor: finish() unless finished, then free the handle
DestroyGroup ==
    /\ GroupFrame
    /\ groupHandle # "freed"
    /\ finished_' = TRUE
    /\ atFinish' = IF finished_ THEN atFinish ELSE written
    /\ groupHandle' = "freed"
    /\ hist' = [op |-> "destroy", wasFinished |-> finished_,
                ffiFinish |-> finish_calls_ffi(finished_, groupHandle)]
    /\ UNCHANGED written

NextGroupProducer ==
    \/ \E data \in WriteArgs, dataNull \in BOOLEAN, ffiOk \in BOOLEAN :
          WriteFrame(data, dataNull, ffiOk)
    \/ Finish
    \/ DestroyGroup

SpecGroup == InitGroup /\ [][NextGroupProducer]_vars

\* C18: once finish() has been called, every writeFrame returns false and
\* the group holds the frames it held at finish()
C18_FinishIsTerminal ==
    /\ finished_ => written = atFinish
    /\ (hist.op = "write" /\ hist.wasFinished)
          => (hist.result = FALSE /\ written = hist.prevWritten)
\* C22: destroying a group producer on which finish() was never called does
\* not end the group gracefully (the group is aborted)
C22_DropWithoutFinishAborts ==
    (hist.op = "destroy" /\ ~hist.wasFinished /\ groupHandle = "freed")
        => ~hist.ffiFinish

C18_Witness ==
    /\ hist.op = "write" /\ hist.wasFinished
    /\ groupHandle = "set"
    /\ Len(written) = 2
    /\ hist.result = FALSE

(***************************************************************************)
(* moq::Session: close, destruction and the calls made after close          *)
(*              (moq-cpp/src/moq_session.cpp, cpp/src/moq_wrapper.cpp)      *)
(***************************************************************************)
Apis == {"moq-cpp", "wrapper"}
SessionOps == {"publish", "consume", "getOriginConsumer", "isConnected", "isAlive"}
WrapperOps == {"WriteFrame", "WriteSingleFrame", "IsConnected"}

Bump(n) == IF n < MaxCount THEN n + 1 ELSE n

\* Session::close (moq-cpp): close and free the handle once, then forget it;
\* Session::Close (wrapper): moq_close_session(handle_), handle_ kept
close(a, h, closes, frees) ==
    IF h # "set"
    THEN [handle |-> h, closes |-> closes, frees |-> frees, result |-> FALSE]
    ELSE IF a = "moq-cpp"
    THEN [handle |-> "null", closes |-> Bump(closes), frees |-> Bump(frees), result |-> TRUE]
    ELSE [handle |-> "set", closes |-> Bump(closes), frees |-> frees, result |-> TRUE]

\* variant of session_call without the handle_ test
session_call_NoHandleCheck(op, h, argNull, ffiOk) ==
    IF op = "publish" /\ argNull THEN FALSE ELSE ffiOk

\* the moq-cpp Session operations: each returns false / null when handle_ is
\* null (publish: also when the producer is null), and the FFI's answer
\* otherwise; TRUE stands for true / a non-null object
session_call(op, h, argNull, ffiOk) ==
    IF h # "set" \/ (op = "publish" /\ argNull) THEN FALSE ELSE ffiOk

CloseFrame ==
    /\ UNCHANGED <<requested_subscriptions_, available_tracks_, consumers_,
                   catalog_consumer, moq_consumer_, fault>>
    /\ UNCHANGED workerVars
    /\ UNCHANGED sessionVars
    /\ UNCHANGED <<retryVars, announceVars, lockVars, groupVars, restVars>>

\* Session constructor: the handle a successful connect returned
InitClose ==
    /\ api \in Apis
    /\ handle_ = "set"
    /\ closeCalls = 0 /\ freeCalls = 0
    /\ alive = TRUE
    /\ created = 0
    /\ closedOnce = FALSE
    /\ CatalogDefaults
    /\ WorkerDefaults
    /\ SessionDefaults
    /\ RetryDefaults /\ AnnounceDefaults /\ LockDefaults /\ GroupDefaults
    /\ RestDefaults

\* a call of Session::close / Session::Close
Close ==
    /\ CloseFrame
    /\ alive
    /\ LET r == close(api, handle_, closeCalls, freeCalls) IN
       /\ handle_' = r.handle
       /\ closeCalls' = r.closes
       /\ freeCalls' = r.frees
       /\ hist' = [op |-> "close", result |-> r.result, wasClosed |-> closedOnce,
                   prevCreated |-> created]
    /\ closedOnce' = TRUE
    /\ UNCHANGED <<api, alive, created>>

\* Session::~Session: moq-cpp frees the handle if it is set; the wrapper
\* closes and then frees it
DestroySession ==
    /\ CloseFrame
    /\ alive
    /\ alive' = FALSE
    /\ closeCalls' = IF handle_ = "set" /\ api = "wrapper" THEN Bump(closeCalls) ELSE closeCalls
    /\ freeCalls' = IF handle_ = "set" THEN Bump(freeCalls) ELSE freeCalls
    /\ hist' = [op |-> "destroy", result |-> TRUE, wasClosed |-> closedOnce,
                prevCreated |-> created]
    /\ UNCHANGED <<api, handle_, created, closedOnce>>

\* publish / consume / getOriginConsumer / isConnected / isAlive (moq-cpp)
SessionCall(op, argNull, ffiOk) ==
    /\ CloseFrame
    /\ alive /\ api = "moq-cpp"
    /\ LET r == session_call(op, handle_, argNull, ffiOk) IN
       /\ created' = IF r /\ op \in {"consume", "getOriginConsumer"}
                     THEN Bump(created) ELSE created
       /\ hist' = [op |-> op, result |-> r, wasClosed |-> closedOnce,
                   prevCreated |-> created, ffi |-> ffiOk]
    /\ UNCHANGED <<api, handle_, closeCalls, freeCalls, alive, closedOnce>>

\* WriteFrame / WriteSingleFrame / IsConnected (wrapper): false on a null
\* handle_, the FFI's answer otherwise
WrapperCall(op, ffiOk) ==
    /\ CloseFrame
    /\ alive /\ api = "wrapper"
    /\ hist' = [op |-> op, result |-> (handle_ = "set" /\ ffiOk), wasClosed |-> closedOnce,
                prevCreated |-> created, ffi |-> ffiOk]
    /\ UNCHANGED closeVars

NextClose ==
    \/ Close
    \/ DestroySession
    \/ \E op \in SessionOps, argNull \in BOOLEAN, ffiOk \in BOOLEAN :
          SessionCall(op, argNull, ffiOk)
    \/ \E op \in WrapperOps, ffiOk \in BOOLEAN : WrapperCall(op, ffiOk)

SpecClose == InitClose /\ [][NextClose]_vars

\* C19: across any number of close() calls followed by destruction, the
\* session handle is closed at most once and freed at most once
C19_CloseAtMostOnce == closeCalls <= 1 /\ freeCalls <= 1

Throws == {"none", "std", "other"}
\* where the data callback is invoked
DataSites == {"moq-mgr", "moq-mgr-cpp", "wrapper"}

\* the handler around the data callback: the consumer loops catch
\* `const std::exception&` and say nothing (moq-mgr also drops the
\* subscription); the wrapper catches everything and writes to std::cerr.
\* An exception that no handler catches leaves the thread: std::terminate
data_callback_handler(site, threw) ==
    [caught    |-> threw = "std" \/ (threw = "other" /\ site = "wrapper"),
     notified  |-> FALSE,
     resets    |-> threw = "std" /\ site = "moq-mgr",
     terminate |-> threw = "other" /\ site # "wrapper"]

\* the handler of session_loop around notify_status / notify_error:
\* `catch (const std::exception& e) { notify_error(...) }`; `again` is what
\* the error callback does when the catch block invokes it
session_loop_handler(threw, again) ==
    [caught    |-> threw = "std",
     notified  |-> threw = "std",
     terminate |-> threw = "other" \/ (threw = "std" /\ again # "none")]

CallbackFrame ==
    /\ UNCHANGED <<requested_subscriptions_, available_tracks_, consumers_,
                   catalog_consumer, moq_consumer_>>
    /\ UNCHANGED workerVars
    /\ UNCHANGED sessionVars
    /\ UNCHANGED <<retryVars, announceVars, lockVars, groupVars, closeVars>>
    /\ UNCHANGED <<prodVars, consumableVars, originVars, dispatchVars>>

InitCallback ==
    /\ cbEstablished = TRUE
    /\ dataCalls = 0 /\ statusCalls = 0 /\ errorCalls = 0
    /\ fault = FALSE
    /\ hist = NoHist
    /\ requested_subscriptions_ = {} /\ available_tracks_ = EmptyMap
    /\ consumers_ = << >> /\ catalog_consumer = "null" /\ moq_consumer_ = "null"
    /\ WorkerDefaults
    /\ SessionDefaults
    /\ RetryDefaults /\ AnnounceDefaults /\ LockDefaults
    /\ GroupDefaults /\ CloseDefaults
    /\ ProducerDefaults /\ ConsumableDefaults /\ OriginDefaults /\ DispatchDefaults

\* a frame is handed to the data callback (handle_moq_data inside the loop
\* "Read all frames from this group", or SessionDataCallbackWrapper)
DataCallback(site, threw) ==
    /\ CallbackFrame
    /\ ~fault
    /\ cbEstablished
    /\ LET h == data_callback_handler(site, threw) IN
       /\ dataCalls' = Bump(dataCalls)
       /\ cbEstablished' = ~h.resets
       /\ fault' = h.terminate
       /\ hist' = [op |-> "data", site |-> site, threw |-> threw,
                   caught |-> h.caught, notified |-> h.notified]
    /\ UNCHANGED <<statusCalls, errorCalls>>

\* consumer_loop: establish_subscription() succeeds again
Resubscribed ==
    /\ CallbackFrame
    /\ ~fault
    /\ ~cbEstablished
    /\ cbEstablished' = TRUE
    /\ hist' = [op |-> "resubscribed", site |-> "moq-mgr", threw |-> "none",
                caught |-> FALSE, notified |-> FALSE]
    /\ UNCHANGED <<dataCalls, statusCalls, errorCalls, fault>>

\* session_loop: notify_status(...) after a successful reconnect
StatusCallback(threw, again) ==
    /\ CallbackFrame
    /\ ~fault
    /\ LET h == session_loop_handler(threw, again) IN
       /\ statusCalls' = Bump(statusCalls)
       /\ errorCalls' = IF h.notified THEN Bump(errorCalls) ELSE errorCalls
       /\ fault' = h.terminate
       /\ hist' = [op |-> "status", site |-> "session_loop", threw |-> threw,
                   caught |-> h.caught, notified |-> h.notified]
    /\ UNCHANGED <<cbEstablished, dataCalls>>

\* session_loop: notify_error(...) (session disconnected, reconnect failed)
ErrorCallback(threw, again) ==
    /\ CallbackFrame
    /\ ~fault
    /\ LET h == session_loop_handler(threw, again) IN
       /\ errorCalls' = IF h.notified THEN Bump(Bump(errorCalls)) ELSE Bump(errorCalls)
       /\ fault' = h.terminate
       /\ hist' = [op |-> "error", site |-> "session_loop", threw |-> threw,
                   caught |-> h.caught, notified |-> h.notified]
    /\ UNCHANGED <<cbEstablished, dataCalls, statusCalls>>

NextCallback ==
    \/ \E site \in DataSites, threw \in Throws : DataCallback(site, threw)
    \/ Resubscribed
    \/ \E threw \in Throws, again \in Throws : StatusCallback(threw, again)
    \/ \E threw \in Throws, again \in Throws : ErrorCallback(threw, again)

SpecCallback == InitCallback /\ [][NextCallback]_vars

\* C23: an exception thrown by a user callback is caught, is converted to a
\* status/error notification, and does not stop the manager
C23_CallbackExceptionContained ==
    (hist.op \in {"data", "status", "error"} /\ hist.threw # "none")
        => (hist.caught /\ hist.notified /\ ~fault)

(***************************************************************************)
(* ProducerSession and Producer        (moq-mgr/src/moq-mgr-producer.cc,    *)
(*                     moq-mgr/src/moq-mgr-consumer-session.cc 294-307)     *)
(***************************************************************************)
ProducerRetryInterval == 5     \* seconds, retry_interval of producer_loop

\* the path a Producer publishes at: start_all_workers passes
\* config_.moq_namespace as broadcast_id to every Producer
broadcast_id(i) == Namespace

\* Session::publish: fails when the path is already published in this
\* session, and when the FFI call fails
session_publish(pub, path, owner, ffiOk) ==
    IF (\E e \in pub : e.path = path) \/ ~ffiOk
    THEN [ok |-> FALSE, pub |-> pub]
    ELSE [ok |-> TRUE, pub |-> pub \cup {[path |-> path, owner |-> owner]}]

\* Producer::setup_moq_producer: create the broadcast producer and the track
\* producer, take the consumable and publish it; everything is released
\* again when a step fails
setup_moq_producer(i, pub, createOk, consumableOk, ffiOk) ==
    IF ~createOk \/ ~consumableOk
    THEN [ok |-> FALSE, pub |-> pub, track |-> "null", broadcast |-> "null"]
    ELSE LET r == session_publish(pub, broadcast_id(i), i, ffiOk) IN
         IF r.ok
         THEN [ok |-> TRUE, pub |-> r.pub, track |-> "set", broadcast |-> "set"]
         ELSE [ok |-> FALSE, pub |-> pub, track |-> "null", broadcast |-> "null"]

NewProducer == [pc |-> "top", moq_setup |-> FALSE, published_ |-> FALSE, since |-> 0,
                moq_track_producer_ |-> "null", moq_broadcast_producer_ |-> "null"]

ProducerFrame ==
    /\ UNCHANGED <<requested_subscriptions_, available_tracks_, consumers_,
                   catalog_consumer, moq_consumer_, fault>>
    /\ UNCHANGED workerVars
    /\ UNCHANGED sessionVars
    /\ UNCHANGED <<retryVars, announceVars, lockVars, groupVars, closeVars>>
    /\ UNCHANGED <<cbVars, consumableVars, originVars, dispatchVars>>

\* a ProducerSession that has connected; start_all_workers has not run yet
InitProducer ==
    /\ broadcasts_ \in 1..NumConfigs
    /\ producers_ = << >>
    /\ sessionPublished = {}
    /\ prodRunning = TRUE
    /\ CatalogDefaults
    /\ WorkerDefaults
    /\ SessionDefaults
    /\ RetryDefaults /\ AnnounceDefaults /\ LockDefaults
    /\ GroupDefaults /\ CloseDefaults
    /\ CallbackDefaults /\ ConsumableDefaults /\ OriginDefaults /\ DispatchDefaults

\* ProducerSession::start_all_workers
ProducerStartAllWorkers ==
    /\ ProducerFrame
    /\ prodRunning
    /\ producers_ = << >>
    /\ producers_' = [i \in 1..broadcasts_ |-> NewProducer]
    /\ hist' = [op |-> "start_all_workers"]
    /\ UNCHANGED <<broadcasts_, sessionPublished, prodRunning>>

\* producer_loop: one pass of `if (!moq_setup)`: after retry_interval call
\* setup_moq_producer(); then wait 1 s (not set up) or wait for shutdown
ProducerLoopTop(i, createOk, consumableOk, ffiOk) ==
    /\ ProducerFrame
    /\ prodRunning
    /\ i \in 1..Len(producers_)
    /\ producers_[i].pc = "top"
    /\ LET p == producers_[i] IN
       IF p.since >= ProducerRetryInterval
       THEN LET r == setup_moq_producer(i, sessionPublished, createOk, consumableOk, ffiOk) IN
            /\ sessionPublished' = r.pub
            /\ producers_' = [producers_ EXCEPT ![i] =
                   [pc |-> IF r.ok THEN "idle" ELSE "wait",
                    moq_setup |-> r.ok, published_ |-> r.ok,
                    since |-> IF r.ok THEN p.since ELSE 0,
                    moq_track_producer_ |-> r.track,
                    moq_broadcast_producer_ |-> r.broadcast]]
            /\ hist' = [op |-> "setup", producer |-> i, ok |-> r.ok]
       ELSE /\ producers_' = [producers_ EXCEPT ![i].pc = "wait"]
            /\ hist' = [op |-> "wait", producer |-> i, ok |-> FALSE]
            /\ UNCHANGED sessionPublished
    /\ UNCHANGED <<broadcasts_, prodRunning>>

\* one second passes: the 1 s waits of producer_loop end
ProducerTick ==
    /\ ProducerFrame
    /\ prodRunning
    /\ producers_ # << >>
    /\ producers_' = [i \in 1..Len(producers_) |->
           [producers_[i] EXCEPT
               !.since = IF @ < ProducerRetryInterval THEN @ + 1 ELSE @,
               !.pc = IF @ = "wait" THEN "top" ELSE @]]
    /\ hist' = [op |-> "tick"]
    /\ UNCHANGED <<broadcasts_, sessionPublished, prodRunning>>

\* ProducerSession::stop_all_workers (Session::stop)
ProducerStopAll ==
    /\ ProducerFrame
    /\ prodRunning
    /\ prodRunning' = FALSE
    /\ producers_' = [i \in 1..Len(producers_) |-> [producers_[i] EXCEPT !.pc = "exited"]]
    /\ hist' = [op |-> "stop"]
    /\ UNCHANGED <<broadcasts_, sessionPublished>>

NextProducer ==
    \/ ProducerStartAllWorkers
    \/ \E i \in 1..NumConfigs, createOk \in BOOLEAN, consumableOk \in BOOLEAN,
          ffiOk \in BOOLEAN : ProducerLoopTop(i, createOk, consumableOk, ffiOk)
    \/ ProducerTick
    \/ ProducerStopAll

SpecProducer == InitProducer /\ [][NextProducer]_vars

\* a call of setup_moq_producer() in which no FFI call fails by itself
ProducerSetupAttempt(i) ==
    /\ i \in 1..Len(producers_)
    /\ producers_[i].since >= ProducerRetryInterval
    /\ ProducerLoopTop(i, TRUE, TRUE, TRUE)

\* the worker threads are scheduled, the clock advances, and a setup whose
\* FFI calls can succeed is not refused for ever
SpecProducerLive ==
    /\ SpecProducer
    /\ WF_vars(ProducerStartAllWorkers)
    /\ WF_vars(ProducerTick)
    /\ \A i \in 1..NumConfigs :
          /\ WF_vars(\E c \in BOOLEAN, k \in BOOLEAN, f \in BOOLEAN : ProducerLoopTop(i, c, k, f))
          /\ SF_vars(ProducerSetupAttempt(i))

\* broadcast i is published by the session and worker i holds its track producer
PublishedAndHanded(i) ==
    /\ i \in 1..Len(producers_)
    /\ producers_[i].published_
    /\ producers_[i].moq_track_producer_ = "set"
    /\ [path |-> broadcast_id(i), owner |-> i] \in sessionPublished

\* C24: after a successful connect, every configured broadcast is eventually
\* published at the configured namespace with its track producer held by its
\* worker (unless the manager is stopped first)
C24_AllBroadcastsPublished ==
    <>((\A i \in 1..broadcasts_ : PublishedAndHanded(i)) \/ ~prodRunning)

(***************************************************************************)
(* moq::BroadcastProducer and its consumable view                           *)
(*                                  (cpp/src/moq_session.cpp 257-290)       *)
(***************************************************************************)
\* BroadcastProducer::getConsumable: a shared_ptr to `this` with a deleter
\* that does nothing: the very producer object, not owned by the pointer
getConsumable == [target |-> "producer", owning |-> FALSE]

\* whether what a consumable points to exists
ConsumableValid(c, producerExists) ==
    c.target # "producer" \/ c.owning \/ producerExists

ConsumableFrame ==
    /\ UNCHANGED <<requested_subscriptions_, available_tracks_, consumers_,
                   catalog_consumer, moq_consumer_>>
    /\ UNCHANGED workerVars
    /\ UNCHANGED sessionVars
    /\ UNCHANGED <<retryVars, announceVars, lockVars, groupVars, closeVars>>
    /\ UNCHANGED <<cbVars, prodVars, originVars, dispatchVars>>

\* std::make_shared<moq::BroadcastProducer>()
InitConsumable ==
    /\ bpAlive = TRUE
    /\ bpTracks = 0
    /\ consumablesHeld = 0
    /\ sessionBroadcast = "none"
    /\ fault = FALSE
    /\ hist = NoHist
    /\ requested_subscriptions_ = {} /\ available_tracks_ = EmptyMap
    /\ consumers_ = << >> /\ catalog_consumer = "null" /\ moq_consumer_ = "null"
    /\ WorkerDefaults
    /\ SessionDefaults
    /\ RetryDefaults /\ AnnounceDefaults /\ LockDefaults
    /\ GroupDefaults /\ CloseDefaults
    /\ CallbackDefaults /\ ProducerDefaults /\ OriginDefaults /\ DispatchDefaults

\* BroadcastProducer::createTrack
CreateTrack(ffiOk) ==
    /\ ConsumableFrame
    /\ ~fault /\ bpAlive
    /\ bpTracks' = IF ffiOk THEN Bump(bpTracks) ELSE bpTracks
    /\ hist' = [op |-> "createTrack", valid |-> TRUE]
    /\ UNCHANGED <<bpAlive, consumablesHeld, sessionBroadcast, fault>>

\* a call of getConsumable() whose result the caller keeps
GetConsumable ==
    /\ ConsumableFrame
    /\ ~fault /\ bpAlive
    /\ consumablesHeld < MaxCount
    /\ consumablesHeld' = consumablesHeld + 1
    /\ hist' = [op |-> "getConsumable", valid |-> ConsumableValid(getConsumable, bpAlive)]
    /\ UNCHANGED <<bpAlive, bpTracks, sessionBroadcast, fault>>

\* the owner of the producer drops it: ~BroadcastProducer frees the handle
\* (moq_broadcast_producer_.reset() in the manager)
DestroyProducer ==
    /\ ConsumableFrame
    /\ ~fault /\ bpAlive
    /\ bpAlive' = FALSE
    /\ hist' = [op |-> "destroy", valid |-> TRUE]
    /\ UNCHANGED <<bpTracks, consumablesHeld, sessionBroadcast, fault>>

\* Session::publish(name, consumable): reads consumable->handle_.  Through a
\* consumable whose producer is gone this is a read of freed memory: ub is
\* what the build makes of it ("crash", or "stale" for a freed handle that
\* is passed on to the FFI)
PublishConsumable(ub) ==
    /\ ConsumableFrame
    /\ ~fault
    /\ consumablesHeld > 0
    /\ LET valid == ConsumableValid(getConsumable, bpAlive) IN
       /\ fault' = (~valid /\ ub = "crash")
       /\ sessionBroadcast' = IF valid THEN "valid"
                              ELSE IF ub = "crash" THEN sessionBroadcast ELSE "dangling"
       /\ hist' = [op |-> "publish", valid |-> valid]
    /\ UNCHANGED <<bpAlive, bpTracks, consumablesHeld>>

\* a held consumable is dropped; its deleter does nothing
DropConsumable ==
    /\ ConsumableFrame
    /\ ~fault
    /\ consumablesHeld > 0
    /\ consumablesHeld' = consumablesHeld - 1
    /\ hist' = [op |-> "drop", valid |-> TRUE]
    /\ UNCHANGED <<bpAlive, bpTracks, sessionBroadcast, fault>>

NextConsumable ==
    \/ \E ffiOk \in BOOLEAN : CreateTrack(ffiOk)
    \/ GetConsumable
    \/ DestroyProducer
    \/ \E ub \in {"crash", "stale"} : PublishConsumable(ub)
    \/ DropConsumable

SpecConsumable == InitConsumable /\ [][NextConsumable]_vars

\* C27: a consumable returned by getConsumable() stays valid for the session
\* publish path whether or not the producer it came from still exists
C27_ConsumableOutlivesProducer ==
    /\ consumablesHeld > 0 => ConsumableValid(getConsumable, bpAlive)
    /\ hist.op = "publish" => hist.valid
    /\ sessionBroadcast # "dangling"

(***************************************************************************)
(* moq::OriginConsumer                      (moq-cpp/src/moq_origin.cpp)    *)
(* The session engine that feeds it is behind the FFI; it is modelled from  *)
(* the specification of announcement propagation.                           *)
(***************************************************************************)
ActiveName(b) == IF b THEN "true" ELSE "false"

\* the engine sees the peer publish `path`: a re-announcement of a path that
\* is already active is suppressed
engine_publish(act, queue, path) ==
    IF act[path]
    THEN [act |-> act, queue |-> queue]
    ELSE [act |-> [act EXCEPT ![path] = TRUE],
          queue |-> Append(queue, [path |-> path, active |-> TRUE])]

\* the engine sees the peer withdraw an active `path`: always delivered
engine_withdraw(act, queue, path) ==
    [act |-> [act EXCEPT ![path] = FALSE],
     queue |-> Append(queue, [path |-> path, active |-> FALSE])]

\* variant of announce_from_ffi that reports every announcement as active
announce_from_ffi_AlwaysActive(a) == [path |-> a.path, active |-> TRUE]

\* OriginConsumer::announced: the Announce built from the MoqAnnounce the
\* FFI filled in (path copied into a std::string, active copied)
announce_from_ffi(a) == [path |-> a.path, active |-> a.active]

OriginFrame ==
    /\ UNCHANGED <<requested_subscriptions_, available_tracks_, consumers_,
                   catalog_consumer, moq_consumer_, fault>>
    /\ UNCHANGED workerVars
    /\ UNCHANGED sessionVars
    /\ UNCHANGED <<retryVars, announceVars, lockVars, groupVars, closeVars>>
    /\ UNCHANGED <<cbVars, prodVars, consumableVars, dispatchVars>>

\* OriginConsumer constructor, on a session that has seen no announcement
InitOrigin ==
    /\ originHandle \in {"set", "null"}
    /\ pathActive = [p \in Paths |-> FALSE]
    /\ pending = << >>
    /\ lastAnnounced = [p \in Paths |-> "none"]
    /\ CatalogDefaults
    /\ WorkerDefaults
    /\ SessionDefaults
    /\ RetryDefaults /\ AnnounceDefaults /\ LockDefaults
    /\ GroupDefaults /\ CloseDefaults
    /\ CallbackDefaults /\ ProducerDefaults /\ ConsumableDefaults /\ DispatchDefaults

\* the peer publishes a broadcast at `path`
PeerPublish(path) ==
    /\ OriginFrame
    /\ Len(pending) < MaxCount
    /\ LET r == engine_publish(pathActive, pending, path) IN
       /\ pathActive' = r.act
       /\ pending' = r.queue
    /\ hist' = [op |-> "publish", path |-> path]
    /\ UNCHANGED <<originHandle, lastAnnounced>>

\* the peer withdraws the broadcast it published at `path`
PeerWithdraw(path) ==
    /\ OriginFrame
    /\ Len(pending) < MaxCount
    /\ pathActive[path]
    /\ LET r == engine_withdraw(pathActive, pending, path) IN
       /\ pathActive' = r.act
       /\ pending' = r.queue
    /\ hist' = [op |-> "withdraw", path |-> path]
    /\ UNCHANGED <<originHandle, lastAnnounced>>

\* OriginConsumer::announced() / tryAnnounced(): std::nullopt on a null
\* handle and when the FFI call does not return AnnounceSuccess (here: no
\* announcement is queued), the converted announcement otherwise
Announcement ==
    /\ OriginFrame
    /\ IF originHandle = "null" \/ pending = << >>
       THEN /\ hist' = [op |-> "nullopt", path |-> "none"]
            /\ UNCHANGED <<pending, lastAnnounced>>
       ELSE LET a == announce_from_ffi(Head(pending)) IN
            /\ pending' = Tail(pending)
            /\ lastAnnounced' = [lastAnnounced EXCEPT ![a.path] = ActiveName(a.active)]
            /\ hist' = [op |-> "announced", path |-> a.path, active |-> a.active,
                        prev |-> lastAnnounced[a.path]]
    /\ UNCHANGED <<originHandle, pathActive>>

NextOrigin ==
    \/ \E path \in Paths : PeerPublish(path)
    \/ \E path \in Paths : PeerWithdraw(path)
    \/ Announcement

SpecOrigin == InitOrigin /\ [][NextOrigin]_vars

SessionIds == 1..MaxSessions
EventKinds == {"announced", "cancelled", "closed"}

\* SessionBroadcastAnnouncedWrapper / SessionBroadcastCancelledWrapper /
\* SessionConnectionClosedWrapper: the engine passes no handle, and the
\* callback invoked is the one of g_current_session, if that pointer and the
\* callback are non-null.  `target` is the Session whose callback runs (0:
\* none).  A g_current_session that names a destroyed Session is a dangling
\* pointer; ub is what the read of the freed object gives: "stale" (the
\* callback pointer the destructor had reset: nothing is called) or "crash".
event_wrapper(kind, cur, live, cbs, ub) ==
    IF cur = 0
    THEN [target |-> 0, crashed |-> FALSE]
    ELSE IF cur \notin live
    THEN [target |-> 0, crashed |-> (ub = "crash")]
    ELSE IF kind \in cbs[cur]
    THEN [target |-> cur, crashed |-> FALSE]
    ELSE [target |-> 0, crashed |-> FALSE]

DispatchFrame ==
    /\ UNCHANGED <<requested_subscriptions_, available_tracks_, consumers_,
                   catalog_consumer, moq_consumer_>>
    /\ UNCHANGED workerVars
    /\ UNCHANGED sessionVars
    /\ UNCHANGED <<retryVars, announceVars, lockVars, groupVars, closeVars>>
    /\ UNCHANGED <<cbVars, prodVars, consumableVars, originVars>>

\* no Session object has been created: g_current_session is nullptr
InitDispatch ==
    /\ wSessions = {}
    /\ wCallbacks = [id \in SessionIds |-> {}]
    /\ g_current_session = 0
    /\ CatalogDefaults
    /\ WorkerDefaults
    /\ SessionDefaults
    /\ RetryDefaults /\ AnnounceDefaults /\ LockDefaults
    /\ GroupDefaults /\ CloseDefaults
    /\ CallbackDefaults /\ ProducerDefaults /\ ConsumableDefaults /\ OriginDefaults

\* Session::Session(handle): registers the object in g_session_map and makes
\* it g_current_session
CreateWrapperSession(id) ==
    /\ DispatchFrame
    /\ ~fault
    /\ id \notin wSessions
    /\ wSessions' = wSessions \cup {id}
    /\ wCallbacks' = [wCallbacks EXCEPT ![id] = {}]
    /\ g_current_session' = id
    /\ hist' = [op |-> "create", id |-> id]
    /\ UNCHANGED fault

\* Session::SetBroadcastAnnouncedCallback / SetBroadcastCancelledCallback /
\* SetConnectionClosedCallback: the callback is stored in the object and the
\* common C wrapper is registered on the object's engine handle
SetEventCallback(id, kind) ==
    /\ DispatchFrame
    /\ ~fault
    /\ id \in wSessions
    /\ wCallbacks' = [wCallbacks EXCEPT ![id] = @ \cup {kind}]
    /\ hist' = [op |-> "set", id |-> id]
    /\ UNCHANGED <<wSessions, g_current_session, fault>>

\* Session::~Session: resets the callbacks, erases the object from
\* g_session_map, closes and frees the handle; g_current_session is left as
\* it is
DestroyWrapperSession(id) ==
    /\ DispatchFrame
    /\ ~fault
    /\ id \in wSessions
    /\ wSessions' = wSessions \ {id}
    /\ wCallbacks' = [wCallbacks EXCEPT ![id] = {}]
    /\ hist' = [op |-> "destroy", id |-> id]
    /\ UNCHANGED <<g_current_session, fault>>

\* the engine raises an event of `kind` on the handle of the live Session
\* `id`, on which a callback for that kind is registered
EngineEvent(id, kind, ub) ==
    /\ DispatchFrame
    /\ ~fault
    /\ id \in wSessions
    /\ kind \in wCallbacks[id]
    /\ LET r == event_wrapper(kind, g_current_session, wSessions, wCallbacks, ub) IN
       /\ fault' = r.crashed
       /\ hist' = [op |-> "event", kind |-> kind, raisedBy |-> id,
                   target |-> r.target]
    /\ UNCHANGED dispatchVars

NextDispatch ==
    \/ \E id \in SessionIds : CreateWrapperSession(id)
    \/ \E id \in SessionIds, kind \in EventKinds : SetEventCallback(id, kind)
    \/ \E id \in SessionIds : DestroyWrapperSession(id)
    \/ \E id \in SessionIds, kind \in EventKinds, ub \in {"stale", "crash"} :
          EngineEvent(id, kind, ub)

SpecDispatch == InitDispatch /\ [][NextDispatch]_vars

\* C39: every event the engine raises on the handle of a live Session is
\* dispatched to the callback registered on that Session
C39_EventReachesItsSession ==
    hist.op = "event" => (hist.target = hist.raisedBy /\ ~fault)

====
